---- MODULE Spec2Model ----
(***************************************************************************)
(* Eleven-plus quiz: session timing engine and question pool assembly.     *)
(*                                                                         *)
(* Three variants of the page component are modelled:                      *)
(*   "quota"   the page with topic quotas and the recent-id buffer         *)
(*             (src/unnamed/part_004, second component, lines 300-1183)    *)
(*   "writing" the page with typed and paper writing modes                 *)
(*             (src/unnamed/part_005)                                      *)
(*   "lint"    the page without pause (src/unnamed/part_002)               *)
(* Each event handler, together with the re-render and the React effects   *)
(* it triggers, is one atomic action (single-threaded event loop).  The    *)
(* only suspension point inside a handler is the await of a fetch; a       *)
(* suspended start is an entry of `pending` holding the values its closure *)
(* captured.                                                               *)
(*                                                                         *)
(* Time is scaled: TenMin model ticks stand for the 600 one-second ticks   *)
(* of ten minutes; the source constants 10*60, 30*60 and 40*60 keep their  *)
(* ratios.                                                                 *)
(***************************************************************************)
EXTENDS Integers, Sequences, FiniteSets, Bags, TLC

(* ------------------------------ bounds -------------------------------- *)
TenMin == 2
MaxDay == 1
MaxPending == 2

(* ---------------------------- configuration --------------------------- *)
QUIZ_SECONDS == 1 * TenMin
DAILY_CAP_SECONDS == 3 * TenMin
WRITING_SECONDS == 3 * TenMin
WRITING_SECONDS_DEFAULT == 4 * TenMin

Min(a, b) == IF a <= b THEN a ELSE b
Max(a, b) == IF a >= b THEN a ELSE b

(* Inputs of the handlers. *)
Subjects == {"maths", "comprehension", "writing"}
W_Subjects == {"vr"}
QuestionLists == {<< >>, <<1>>, <<1, 2>>}
Choices == {0, 1}
StoredSeconds == {0, DAILY_CAP_SECONDS - 1, DAILY_CAP_SECONDS}
WritingTimeChoices == {3 * TenMin, 4 * TenMin}

(* Starts of the lint page are cut off once the ledger has passed this value. *)
LedgerLimit == DAILY_CAP_SECONDS + 2 * QUIZ_SECONDS

VARIABLES
  page,              \* which variant of the Page component is running
  mode, subject, questions, index, answers,
  secondsLeft, writingTime, dailyUsed, paused,
  writingTimeChoice, \* writing page only
  mounted,           \* writing page: the asynchronous mount effect has completed
  pending,           \* suspended startQuiz/startComprehension calls (closures)
  today,             \* index of the calendar day todayKey() names
  ledger,            \* localStorage value stored under quizTime_<todayKey()>
  sess,              \* history: facts about the session started last
  committed,         \* history: sum of the amounts passed to addUsedSecondsToday today
  dayStart,          \* history: ledger value of today when the day (or the run) began
  recentIds,         \* sessionStorage recentIds_v1
  poolIn, poolOut,   \* history: arguments and result of the last buildWithQuota call
  prevIn, prevOut,   \* history: arguments and result of the call before it
  recentAt,          \* history: the recent-id buffer when the last call began
  calls,             \* history: number of buildWithQuota calls made
  fetched,           \* outcome of the fetch of the curated maths file
  outcome,           \* history: how the last handled start of a quiz ended
  stored             \* texts found under settings, quizTime_<day>, recentIds_v1

pageVars == <<mode, subject, questions, index, answers, secondsLeft, writingTime,
              dailyUsed, paused, writingTimeChoice, mounted, pending>>
envVars == <<today, ledger>>
histVars == <<sess, committed, dayStart>>
poolVars == <<recentIds, poolIn, poolOut, prevIn, prevOut, recentAt, calls, fetched, outcome,
              stored>>
vars == <<page, pageVars, envVars, histVars, poolVars>>

(* ---------------------------- time helpers ---------------------------- *)
getUsedSecondsToday == ledger

(* a write that drops the value read *)
addUsedSecondsToday_Overwrite(cur, n) == n

addUsedSecondsToday(cur, n) == cur + n

canStart(du) == du < DAILY_CAP_SECONDS

remainingToday(du) == Max(0, DAILY_CAP_SECONDS - du)

NoSession == [kind |-> "none", init |-> 0, fixed |-> 0, used |-> 0, ledger0 |-> 0,
              day |-> 0, commits |-> 0, stale |-> FALSE]

(* stale: the quiz timeout that is pending was scheduled before this       *)
(* session started; a start makes every pending timeout an older one.      *)
NewSession(k, initial, fixedLen, du) ==
  [kind |-> k, init |-> initial, fixed |-> fixedLen, used |-> du,
   ledger0 |-> ledger, day |-> today, commits |-> 0, stale |-> TRUE]

(* The quiz timer effect has the dependency list [mode, paused,            *)
(* secondsLeft]: a render that leaves (m, p, s) runs its cleanup           *)
(* (clearTimeout) and schedules anew only when one of the three changed;   *)
(* otherwise a timeout that is pending stays pending.                      *)
TimeoutKept(se, m, p, s) ==
  [se EXCEPT !.stale = @ /\ mode = "quiz" /\ ~paused /\ secondsLeft > 0
                         /\ m = mode /\ p = paused /\ s = secondsLeft]

(* ======================= quota page (part_004) ======================== *)
(* answer buttons that are rendered whether or not a question is current *)
Q_current_Always == TRUE

Q_current == index + 1 <= Len(questions)

Q_QuizTimerExpired(m, p, s) == m = "quiz" /\ ~p /\ s <= 0

Q_WritingTimerExpired(m, p, wt) == m = "writing" /\ ~p /\ wt <= 0

(* a timer that is not cleared on pause *)
Q_QuizTimerArmed_IgnoresPause == mode = "quiz" /\ secondsLeft > 0

Q_QuizTimerArmed == mode = "quiz" /\ ~paused /\ secondsLeft > 0

Q_WritingTimerArmed == mode = "writing" /\ ~paused /\ writingTime > 0

(* The two timer effects, run on the state (m, p, s, wt) a handler leaves. *)
Q_Effects(m, p, s, wt, se) ==
  LET qx == Q_QuizTimerExpired(m, p, s)
      wx == Q_WritingTimerExpired(m, p, wt)
      led == IF qx THEN addUsedSecondsToday(ledger, QUIZ_SECONDS) ELSE ledger
  IN /\ mode' = IF qx THEN "results" ELSE IF wx THEN "writingResults" ELSE m
     /\ paused' = p
     /\ secondsLeft' = s
     /\ writingTime' = wt
     /\ ledger' = led
     /\ dailyUsed' = IF qx THEN led ELSE dailyUsed
     /\ committed' = IF qx THEN committed + QUIZ_SECONDS ELSE committed
     /\ sess' = TimeoutKept(IF qx THEN [se EXCEPT !.commits = @ + 1] ELSE se, m, p, s)

Q_startQuizPage(subj) ==
  /\ page = "quota"
  /\ \/ mode = "menu" /\ canStart(dailyUsed)
     \/ mode = "results" /\ subject = subj
     \/ mode = "writingResults" /\ subj = "writing"
  /\ IF ~canStart(dailyUsed)
       THEN UNCHANGED <<pageVars, envVars, sess, committed, dayStart>>
       ELSE IF subj = "writing"
         THEN /\ subject' = "writing"
              /\ Q_Effects("writing", FALSE, secondsLeft,
                           Min(WRITING_SECONDS, remainingToday(dailyUsed)),
                           NewSession("writing", Min(WRITING_SECONDS, remainingToday(dailyUsed)),
                                      WRITING_SECONDS, dailyUsed))
              /\ UNCHANGED <<questions, index, answers, writingTimeChoice, mounted,
                             pending, today, dayStart>>
         ELSE /\ BagCardinality(pending) < MaxPending
              /\ pending' = pending (+) SetToBag({[kind |-> IF subj = "comprehension" THEN "comp" ELSE "quiz",
                                                   subj |-> subj, du |-> dailyUsed]})
              /\ UNCHANGED <<mode, subject, questions, index, answers, secondsLeft,
                             writingTime, dailyUsed, paused, writingTimeChoice, mounted,
                             envVars, sess, committed, dayStart>>
  /\ UNCHANGED page

Q_startQuiz(subj) == Q_startQuizPage(subj) /\ UNCHANGED poolVars

Q_startComprehension ==
  /\ page = "quota"
  /\ mode = "menu" /\ canStart(dailyUsed)
  /\ BagCardinality(pending) < MaxPending
  /\ pending' = pending (+) SetToBag({[kind |-> "comp", subj |-> "comprehension", du |-> dailyUsed]})
  /\ UNCHANGED <<page, mode, subject, questions, index, answers, secondsLeft,
                 writingTime, dailyUsed, paused, writingTimeChoice, mounted,
                 envVars, sess, committed, dayStart, poolVars>>

(* Continuation of a suspended start once its fetch has settled: the      *)
(* closure still holds canStart/remainingToday of the render that made it. *)
(* First a continuation that takes all that is left of the day.            *)
Q_enterQuiz_WholeRemainder(p, qs) ==
  /\ subject' = p.subj
  /\ questions' = qs
  /\ index' = 0
  /\ answers' = << >>
  /\ Q_Effects("quiz", FALSE, remainingToday(p.du), writingTime,
               NewSession("quiz", remainingToday(p.du), QUIZ_SECONDS, p.du))

Q_enterQuiz(p, qs) ==
  /\ subject' = p.subj
  /\ questions' = qs
  /\ index' = 0
  /\ answers' = << >>
  /\ Q_Effects("quiz", FALSE, Min(QUIZ_SECONDS, remainingToday(p.du)), writingTime,
               NewSession("quiz", Min(QUIZ_SECONDS, remainingToday(p.du)), QUIZ_SECONDS, p.du))

Q_resumeQuiz(p, qs) ==
  /\ page = "quota"
  /\ BagIn(p, pending)
  /\ p.kind = "quiz"
  /\ pending' = pending (-) SetToBag({p})
  /\ Q_enterQuiz(p, qs)
  /\ UNCHANGED <<page, writingTimeChoice, mounted, today, dayStart>>

Q_loadCuratedDone(p, qs) == Q_resumeQuiz(p, qs) /\ UNCHANGED poolVars

Q_loadComprehensionDone(p, empty, qs) ==
  /\ page = "quota"
  /\ BagIn(p, pending)
  /\ p.kind = "comp"
  /\ pending' = pending (-) SetToBag({p})
  /\ IF empty
       THEN UNCHANGED <<mode, subject, questions, index, answers, secondsLeft,
                           writingTime, dailyUsed, paused, ledger, sess, committed>>
       ELSE Q_enterQuiz(p, qs)
  /\ UNCHANGED <<page, writingTimeChoice, mounted, today, dayStart, poolVars>>

Q_QuizTick ==
  /\ page = "quota"
  /\ Q_QuizTimerArmed
  /\ Q_Effects(mode, paused, secondsLeft - 1, writingTime, sess)
  /\ UNCHANGED <<page, subject, questions, index, answers, writingTimeChoice, mounted,
                 pending, today, dayStart, poolVars>>

Q_WritingTick ==
  /\ page = "quota"
  /\ Q_WritingTimerArmed
  /\ Q_Effects(mode, paused, secondsLeft, writingTime - 1, sess)
  /\ UNCHANGED <<page, subject, questions, index, answers, writingTimeChoice, mounted,
                 pending, today, dayStart, poolVars>>

Q_Pause ==
  /\ page = "quota"
  /\ \/ mode = "quiz" /\ Q_current
     \/ mode = "writing"
  /\ Q_Effects(mode, ~paused, secondsLeft, writingTime, sess)
  /\ UNCHANGED <<page, subject, questions, index, answers, writingTimeChoice, mounted,
                 pending, today, dayStart, poolVars>>

Q_EndQuiz ==
  /\ page = "quota"
  /\ mode = "quiz" /\ Q_current
  /\ Q_Effects("results", paused, secondsLeft, writingTime, sess)
  /\ UNCHANGED <<page, subject, questions, index, answers, writingTimeChoice, mounted,
                 pending, today, dayStart, poolVars>>

Q_answer(i) ==
  /\ page = "quota"
  /\ mode = "quiz" /\ Q_current
  /\ answers' = Append(answers, i)
  /\ IF index + 1 < Len(questions)
       THEN /\ index' = index + 1
            /\ Q_Effects(mode, paused, secondsLeft, writingTime, sess)
       ELSE /\ index' = index
            /\ Q_Effects("results", paused, secondsLeft, writingTime, sess)
  /\ UNCHANGED <<page, subject, questions, writingTimeChoice, mounted,
                 pending, today, dayStart, poolVars>>

Q_FinishWriting ==
  /\ page = "quota"
  /\ mode = "writing"
  /\ Q_Effects("writingResults", paused, secondsLeft, writingTime, sess)
  /\ UNCHANGED <<page, subject, questions, index, answers, writingTimeChoice, mounted,
                 pending, today, dayStart, poolVars>>

Q_SetMode(from, to) ==
  /\ page = "quota"
  /\ mode = from
  /\ Q_Effects(to, paused, secondsLeft, writingTime, sess)
  /\ UNCHANGED <<page, subject, questions, index, answers, writingTimeChoice, mounted,
                 pending, today, dayStart, poolVars>>

Q_BackToMenu == \E from \in {"results", "writingResults", "practice"} : Q_SetMode(from, "menu")

Q_PracticeHub == Q_SetMode("menu", "practice")

(* ====================== writing page (part_005) ======================= *)
(* a quiz card that is hidden while the quiz is paused *)
W_current_Unpaused == index + 1 <= Len(questions) /\ ~paused

W_current == index + 1 <= Len(questions)

(* an expiry check without the mode guard *)
W_QuizTimerExpired_AnyMode(m, p, s) == ~p /\ s <= 0

W_QuizTimerExpired(m, p, s) == m = "quiz" /\ ~p /\ s <= 0

W_WritingTimerExpired(m, p, wt) == m \in {"writing", "writingPaper"} /\ ~p /\ wt <= 0

W_QuizTimerArmed == mode = "quiz" /\ ~paused /\ secondsLeft > 0

W_WritingTimerArmed == mode \in {"writing", "writingPaper"} /\ ~paused /\ writingTime > 0

(* elapsed, as endQuiz computes it from the secondsLeft of its closure *)
W_elapsed(s) == Max(0, QUIZ_SECONDS - s)

(* The state a handler leaves is (m, p, s, wt); `ended` says that the     *)
(* handler itself called endQuiz.  Then the two timer effects run; the     *)
(* quiz timer effect calls endQuiz when the countdown has reached zero.    *)
W_Effects(m, p, s, wt, se, ended) ==
  LET qx == ~ended /\ W_QuizTimerExpired(m, p, s)
      wx == ~ended /\ W_WritingTimerExpired(m, p, wt)
      commit == ended \/ qx
      led == IF commit THEN addUsedSecondsToday(ledger, W_elapsed(s)) ELSE ledger
  IN /\ mode' = IF commit THEN "results"
                ELSE IF wx THEN (IF m = "writing" THEN "writingResults" ELSE "writingPaperResults")
                ELSE m
     /\ paused' = p
     /\ secondsLeft' = s
     /\ writingTime' = wt
     /\ ledger' = led
     /\ dailyUsed' = IF commit THEN led ELSE dailyUsed
     /\ committed' = IF commit THEN committed + W_elapsed(s) ELSE committed
     /\ sess' = TimeoutKept(IF commit THEN [se EXCEPT !.commits = @ + 1] ELSE se, m, p, s)

(* The mount effect: both fetches have settled, then dailyUsed is read. *)
W_Mount ==
  /\ page = "writing"
  /\ ~mounted
  /\ mounted' = TRUE
  /\ dailyUsed' = getUsedSecondsToday
  /\ UNCHANGED <<page, mode, subject, questions, index, answers, secondsLeft, writingTime,
                 paused, writingTimeChoice, pending, envVars, histVars>>

W_MountDone == W_Mount /\ UNCHANGED poolVars

W_startQuizPage(subj, qs) ==
  /\ page = "writing"
  /\ \/ mode = "menu" /\ canStart(dailyUsed)
     \/ mode = "results" /\ subject = subj
  /\ IF ~canStart(dailyUsed)
       THEN UNCHANGED <<pageVars, envVars, histVars>>
       ELSE /\ subject' = subj
            /\ questions' = qs
            /\ index' = 0
            /\ answers' = << >>
            /\ W_Effects("quiz", FALSE, Min(QUIZ_SECONDS, remainingToday(dailyUsed)), writingTime,
                         NewSession("quiz", Min(QUIZ_SECONDS, remainingToday(dailyUsed)),
                                    QUIZ_SECONDS, dailyUsed), FALSE)
            /\ UNCHANGED <<writingTimeChoice, mounted, pending, today, dayStart>>
  /\ UNCHANGED page

W_startQuiz(subj, qs) == W_startQuizPage(subj, qs) /\ UNCHANGED poolVars

W_answer(c) ==
  /\ page = "writing"
  /\ mode = "quiz" /\ W_current
  /\ answers' = Append(answers, c)
  /\ IF index + 1 < Len(questions)
       THEN /\ index' = index + 1
            /\ W_Effects(mode, paused, secondsLeft, writingTime, sess, FALSE)
       ELSE /\ index' = index
            /\ W_Effects(mode, paused, secondsLeft, writingTime, sess, TRUE)
  /\ UNCHANGED <<page, subject, questions, writingTimeChoice, mounted,
                 pending, today, dayStart, poolVars>>

W_finishNow ==
  /\ page = "writing"
  /\ mode = "quiz" /\ W_current
  /\ W_Effects(mode, paused, secondsLeft, writingTime, sess, TRUE)
  /\ UNCHANGED <<page, subject, questions, index, answers, writingTimeChoice, mounted,
                 pending, today, dayStart, poolVars>>

W_QuizTick ==
  /\ page = "writing"
  /\ W_QuizTimerArmed
  /\ W_Effects(mode, paused, secondsLeft - 1, writingTime, sess, FALSE)
  /\ UNCHANGED <<page, subject, questions, index, answers, writingTimeChoice, mounted,
                 pending, today, dayStart, poolVars>>

W_WritingTick ==
  /\ page = "writing"
  /\ W_WritingTimerArmed
  /\ W_Effects(mode, paused, secondsLeft, writingTime - 1, sess, FALSE)
  /\ UNCHANGED <<page, subject, questions, index, answers, writingTimeChoice, mounted,
                 pending, today, dayStart, poolVars>>

W_Pause ==
  /\ page = "writing"
  /\ \/ mode = "quiz" /\ W_current
     \/ mode \in {"writing", "writingPaper"}
  /\ W_Effects(mode, ~paused, secondsLeft, writingTime, sess, FALSE)
  /\ UNCHANGED <<page, subject, questions, index, answers, writingTimeChoice, mounted,
                 pending, today, dayStart, poolVars>>

W_startWriting(m, resultsMode) ==
  /\ page = "writing"
  /\ \/ mode = "menu" /\ canStart(dailyUsed)
     \/ mode = resultsMode
  /\ IF ~canStart(dailyUsed)
       THEN UNCHANGED <<pageVars, envVars, histVars>>
       ELSE /\ subject' = "writing"
            /\ W_Effects(m, FALSE, secondsLeft, Min(writingTimeChoice, remainingToday(dailyUsed)),
                         NewSession(m, Min(writingTimeChoice, remainingToday(dailyUsed)),
                                    writingTimeChoice, dailyUsed), FALSE)
            /\ UNCHANGED <<questions, index, answers, writingTimeChoice, mounted,
                           pending, today, dayStart>>
  /\ UNCHANGED <<page, poolVars>>

W_startWritingTyping == W_startWriting("writing", "writingResults")

W_startWritingPaper == W_startWriting("writingPaper", "writingPaperResults")

W_SetMode(from, to) ==
  /\ page = "writing"
  /\ mode = from
  /\ W_Effects(to, paused, secondsLeft, writingTime, sess, FALSE)
  /\ UNCHANGED <<page, subject, questions, index, answers, writingTimeChoice, mounted,
                 pending, today, dayStart, poolVars>>

W_FinishWriting ==
  \/ W_SetMode("writing", "writingResults")
  \/ W_SetMode("writingPaper", "writingPaperResults")

W_BackToMenu ==
  \E from \in {"results", "writingResults", "writingPaperResults"} : W_SetMode(from, "menu")

W_setWritingTimeChoice(v) ==
  /\ page = "writing"
  /\ mode = "menu"
  /\ writingTimeChoice' = v
  /\ UNCHANGED <<page, mode, subject, questions, index, answers, secondsLeft, writingTime,
                 dailyUsed, paused, mounted, pending, envVars, histVars, poolVars>>

(* ======================= lint-clean page (part_002) =================== *)
L_QuizTimerExpired(m, s) == m = "quiz" /\ s <= 0

L_WritingTimerExpired(m, wt) == m = "writing" /\ wt <= 0

(* The timer effects; the quiz effect commits without refreshing dailyUsed. *)
L_Effects(m, s, wt, se) ==
  LET qx == L_QuizTimerExpired(m, s)
      wx == L_WritingTimerExpired(m, wt)
  IN /\ mode' = IF qx THEN "results" ELSE IF wx THEN "writingResults" ELSE m
     /\ secondsLeft' = s
     /\ writingTime' = wt
     /\ ledger' = IF qx THEN addUsedSecondsToday(ledger, QUIZ_SECONDS) ELSE ledger
     /\ committed' = IF qx THEN committed + QUIZ_SECONDS ELSE committed
     /\ sess' = TimeoutKept(IF qx THEN [se EXCEPT !.commits = @ + 1] ELSE se, m, paused, s)
     /\ UNCHANGED <<dailyUsed, paused>>

L_startQuiz(subj) ==
  /\ page = "lint"
  /\ \/ mode = "menu" /\ canStart(dailyUsed)
     \/ mode = "results" /\ subject = subj
     \/ mode = "writingResults" /\ subj = "writing"
  /\ IF ~canStart(dailyUsed)
       THEN UNCHANGED <<pageVars, envVars, histVars>>
       ELSE IF subj = "writing"
         THEN /\ subject' = "writing"
              /\ L_Effects("writing", secondsLeft, Min(WRITING_SECONDS, remainingToday(dailyUsed)),
                           NewSession("writing", Min(WRITING_SECONDS, remainingToday(dailyUsed)),
                                      WRITING_SECONDS, dailyUsed))
              /\ UNCHANGED <<questions, index, answers, writingTimeChoice, mounted,
                             pending, today, dayStart>>
         ELSE /\ BagCardinality(pending) < MaxPending
              /\ pending' = pending (+) SetToBag({[kind |-> IF subj = "comprehension" THEN "comp" ELSE "quiz",
                                                   subj |-> subj, du |-> dailyUsed]})
              /\ UNCHANGED <<mode, subject, questions, index, answers, secondsLeft,
                             writingTime, dailyUsed, paused, writingTimeChoice, mounted,
                             envVars, histVars>>
  /\ UNCHANGED <<page, poolVars>>

L_startComprehension ==
  /\ page = "lint"
  /\ mode = "menu" /\ canStart(dailyUsed)
  /\ BagCardinality(pending) < MaxPending
  /\ pending' = pending (+) SetToBag({[kind |-> "comp", subj |-> "comprehension", du |-> dailyUsed]})
  /\ UNCHANGED <<page, mode, subject, questions, index, answers, secondsLeft,
                 writingTime, dailyUsed, paused, writingTimeChoice, mounted,
                 envVars, histVars, poolVars>>

L_enterQuiz(p, qs) ==
  /\ ledger + QUIZ_SECONDS <= LedgerLimit
  /\ subject' = p.subj
  /\ questions' = qs
  /\ index' = 0
  /\ answers' = << >>
  /\ L_Effects("quiz", Min(QUIZ_SECONDS, remainingToday(p.du)), writingTime,
               NewSession("quiz", Min(QUIZ_SECONDS, remainingToday(p.du)), QUIZ_SECONDS, p.du))

L_loadCuratedDone(p, qs) ==
  /\ page = "lint"
  /\ BagIn(p, pending)
  /\ p.kind = "quiz"
  /\ pending' = pending (-) SetToBag({p})
  /\ L_enterQuiz(p, qs)
  /\ UNCHANGED <<page, writingTimeChoice, mounted, today, dayStart, poolVars>>

L_loadComprehensionDone(p, empty, qs) ==
  /\ page = "lint"
  /\ BagIn(p, pending)
  /\ p.kind = "comp"
  /\ pending' = pending (-) SetToBag({p})
  /\ IF empty
       THEN UNCHANGED <<mode, subject, questions, index, answers, secondsLeft,
                        writingTime, dailyUsed, paused, ledger, sess, committed>>
       ELSE L_enterQuiz(p, qs)
  /\ UNCHANGED <<page, writingTimeChoice, mounted, today, dayStart, poolVars>>

L_QuizTick ==
  /\ page = "lint"
  /\ mode = "quiz" /\ secondsLeft > 0
  /\ L_Effects(mode, secondsLeft - 1, writingTime, sess)
  /\ UNCHANGED <<page, subject, questions, index, answers, writingTimeChoice, mounted,
                 pending, today, dayStart, poolVars>>

L_WritingTick ==
  /\ page = "lint"
  /\ mode = "writing" /\ writingTime > 0
  /\ L_Effects(mode, secondsLeft, writingTime - 1, sess)
  /\ UNCHANGED <<page, subject, questions, index, answers, writingTimeChoice, mounted,
                 pending, today, dayStart, poolVars>>

L_answer(i) ==
  /\ page = "lint"
  /\ mode = "quiz" /\ index + 1 <= Len(questions)
  /\ answers' = Append(answers, i)
  /\ IF index + 1 < Len(questions)
       THEN /\ index' = index + 1
            /\ L_Effects(mode, secondsLeft, writingTime, sess)
       ELSE /\ index' = index
            /\ L_Effects("results", secondsLeft, writingTime, sess)
  /\ UNCHANGED <<page, subject, questions, writingTimeChoice, mounted,
                 pending, today, dayStart, poolVars>>

L_SetMode(from, to) ==
  /\ page = "lint"
  /\ mode = from
  /\ L_Effects(to, secondsLeft, writingTime, sess)
  /\ UNCHANGED <<page, subject, questions, index, answers, writingTimeChoice, mounted,
                 pending, today, dayStart, poolVars>>

L_EndQuiz == L_SetMode("quiz", "results")

L_FinishWriting == L_SetMode("writing", "writingResults")

L_BackToMenu == \E from \in {"results", "writingResults"} : L_SetMode(from, "menu")

(* ===================== pool assembly (part_004) ======================= *)
(* A question is [id, stem, tags, exam_board, svg]: stem is the sequence  *)
(* of its character codes, a tag "p:v" is the record [p |-> p, v |-> v],  *)
(* svg says that svgChoiceSets is an array of length 4.                    *)
TARGET_COUNTS == [maths |-> 12, english |-> 12, vr |-> 10, nvr |-> 10]

MATHS_QUOTA == <<[topic |-> "arithmetic", n |-> 4], [topic |-> "fracpct", n |-> 3],
                 [topic |-> "geometry", n |-> 2], [topic |-> "word", n |-> 2],
                 [topic |-> "data", n |-> 1]>>
ENGLISH_QUOTA == <<[topic |-> "vocab", n |-> 4], [topic |-> "grammar", n |-> 4],
                   [topic |-> "cloze", n |-> 2], [topic |-> "improve", n |-> 2]>>
VR_QUOTA == <<[topic |-> "sequences", n |-> 4], [topic |-> "analogies", n |-> 3],
              [topic |-> "codes", n |-> 3]>>
NVR_QUOTA == <<[topic |-> "odd", n |-> 4], [topic |-> "rotation", n |-> 3],
               [topic |-> "reflection", n |-> 2], [topic |-> "matrix", n |-> 1]>>

RECENT_LIMIT == 120

DEFAULT_SETTINGS == [grade |-> "Y4", boards |-> <<"Kent", "Bexley">>, allowHarder |-> FALSE]

yearTag(grade) ==
  IF grade = "Y4" THEN [p |-> "year", v |-> "4"]
  ELSE IF grade = "Y5" THEN [p |-> "year", v |-> "5"]
  ELSE [p |-> "year", v |-> "6"]

Range(s) == {s[i] : i \in 1..Len(s)}

Ids(qs) == [i \in 1..Len(qs) |-> qs[i].id]

Take(s, n) == SubSeq(s, 1, Min(n, Len(s)))

(* h = (h*31 + code)|0 over the characters.  The 32-bit value is kept as *)
(* its two 16-bit halves <<high, low>>, so that |0 wraps as in the source; *)
(* toString() is one-to-one on these values.                               *)
stemHash(stem) ==
  LET RECURSIVE stemHashFrom(_, _)
      stemHashFrom(i, h) ==
        IF i > Len(stem) THEN h
        ELSE LET low == h[2] * 31 + stem[i]
             IN stemHashFrom(i + 1, <<(h[1] * 31 + low \div 65536) % 65536, low % 65536>>)
  IN stemHashFrom(1, <<0, 0>>)

(* NoStem is the "" that sh holds for an empty or missing stem *)
uniqueByIdThenStem(arr) ==
  LET NoStem == <<-1, -1>>
      StemKey(q) == IF Len(q.stem) > 0 THEN stemHash(q.stem) ELSE NoStem
      RECURSIVE uniqueFrom(_, _, _, _)
      uniqueFrom(i, seenId, seenStem, out) ==
        IF i > Len(arr) THEN out
        ELSE LET it == arr[i]
                 sh == StemKey(it)
             IN IF it.id \in seenId THEN uniqueFrom(i + 1, seenId, seenStem, out)
                ELSE IF sh # NoStem /\ sh \in seenStem THEN uniqueFrom(i + 1, seenId, seenStem, out)
                ELSE uniqueFrom(i + 1, seenId \cup {it.id},
                                IF sh # NoStem THEN seenStem \cup {sh} ELSE seenStem,
                                Append(out, it))
  IN uniqueFrom(1, {}, {}, << >>)

getRecentIds == recentIds

(* a buffer that keeps its oldest entries *)
pushRecentIds_KeepOldest(recent, ids) ==
  LET merged == recent \o ids
  IN SubSeq(merged, 1, Min(Len(merged), RECENT_LIMIT))

(* the value pushRecentIds stores: Array.from(new Set(merged)).slice(-120) *)
pushRecentIds(recent, ids) ==
  LET merged == recent \o ids
      (* new Set(merged) keeps the first occurrence of each id, in order *)
      isFirst(i) == \A j \in 1..(i - 1) : merged[j] # merged[i]
      firsts == SelectSeq([i \in 1..Len(merged) |-> i], isFirst)
      dedup == [k \in 1..Len(firsts) |-> merged[firsts[k]]]
  IN SubSeq(dedup, Max(1, Len(dedup) - RECENT_LIMIT + 1), Len(dedup))

(* a filter that keeps every candidate *)
filterNotRecent_KeepAll(arr, recent) == arr

filterNotRecent(arr, recent) ==
  LET keep(q) == q.id \notin Range(recent) IN SelectSeq(arr, keep)

(* "" stands for undefined: every caller treats both alike (|| default) *)
tagValue(tags, prefix) ==
  LET RECURSIVE tagValueFrom(_)
      tagValueFrom(i) ==
        IF i > Len(tags) THEN ""
        ELSE IF tags[i].p = prefix THEN tags[i].v ELSE tagValueFrom(i + 1)
  IN tagValueFrom(1)

(* the filter of buildWithQuota, lines 852-858 *)
TagOk(q, settings) ==
  LET yearOk == Len(q.tags) = 0 \/ yearTag(settings.grade) \in Range(q.tags)
      boardOk == Len(q.exam_board) = 0 \/ Range(q.exam_board) \cap Range(settings.boards) # {}
      diff == IF tagValue(q.tags, "difficulty") = "" THEN "medium"
              ELSE tagValue(q.tags, "difficulty")
      diffOk == IF settings.allowHarder THEN TRUE ELSE diff # "hard"
  IN yearOk /\ boardOk /\ diffOk

TopicOf(q) == IF tagValue(q.tags, "topic") = "" THEN "misc" ELSE tagValue(q.tags, "topic")

partitionByTopic(qs, topic) ==
  LET inTopic(q) == TopicOf(q) = topic IN SelectSeq(qs, inTopic)

(* shuffle(group).slice(0,n): every arrangement of n distinct members *)
takeFrom(group, n) ==
  IF Len(group) = 0 \/ n <= 0 THEN {<< >>}
  ELSE LET k == Min(n, Len(group))
           picks == {f \in [1..k -> 1..Len(group)] : \A i, j \in 1..k : i # j => f[i] # f[j]}
       IN {[i \in 1..k |-> group[f[i]]] : f \in picks}

QuotaOf(subj) ==
  CASE subj = "maths" -> MATHS_QUOTA
    [] subj = "english" -> ENGLISH_QUOTA
    [] subj = "vr" -> VR_QUOTA
    [] subj = "nvr" -> NVR_QUOTA

(* the group a quota entry draws from; nvr prefers the items with svgChoiceSets *)
QuotaGroup(subj, filtered, topic) ==
  LET byTopic == partitionByTopic(filtered, topic)
      hasSvg(q) == q.svg
      svgByTopic == partitionByTopic(SelectSeq(filtered, hasSvg), topic)
  IN IF subj = "nvr" /\ Len(svgByTopic) > 0 THEN svgByTopic ELSE byTopic

RECURSIVE QuotaSelections(_, _, _)
QuotaSelections(subj, filtered, i) ==
  IF i > Len(QuotaOf(subj)) THEN {<< >>}
  ELSE {a \o b : a \in takeFrom(QuotaGroup(subj, filtered, QuotaOf(subj)[i].topic),
                                QuotaOf(subj)[i].n),
                 b \in QuotaSelections(subj, filtered, i + 1)}

(* the candidates the filter of buildWithQuota keeps, before deduplication *)
Eligible(curated, generated, settings, recent) ==
  LET ok(q) == TagOk(q, settings)
  IN filterNotRecent(SelectSeq(curated \o generated, ok), recent)

Filtered(curated, generated, settings, recent) ==
  uniqueByIdThenStem(Eligible(curated, generated, settings, recent))

(* buildWithQuota without its top-up step *)
TopUpAndCut_NoTopUp(subj, filtered, selections) ==
  Take(uniqueByIdThenStem(selections), TARGET_COUNTS[subj])

(* top up if short, then dedupe and cut to the target count *)
TopUpAndCut(subj, filtered, selections) ==
  LET need == TARGET_COUNTS[subj] - Len(selections)
      notSel(q) == q.id \notin Range(Ids(selections))
      rest == SelectSeq(filtered, notSel)
      topped == IF need > 0 THEN selections \o Take(rest, need) ELSE selections
  IN Take(uniqueByIdThenStem(topped), TARGET_COUNTS[subj])

(* every list buildWithQuota can return, over the outcomes of shuffle *)
buildWithQuota(subj, curated, generated, settings, recent) ==
  LET filtered == Filtered(curated, generated, settings, recent)
  IN {TopUpAndCut(subj, filtered, sel) : sel \in QuotaSelections(subj, filtered, 1)}

(* --- inputs of the pool specification --- *)
Tag(p, v) == [p |-> p, v |-> v]

Q(id, stem, tags, boards, svg) ==
  [id |-> id, stem |-> stem, tags |-> tags, exam_board |-> boards, svg |-> svg]

MaxPool == 2
MaxCalls == 2

CandidateLists ==
  LET Catalog ==
        { Q("a", <<65>>, <<Tag("year", "4"), Tag("topic", "arithmetic")>>, << >>, FALSE),
          Q("b", <<66>>, <<Tag("year", "4"), Tag("topic", "arithmetic"), Tag("difficulty", "easy")>>,
            <<"Kent">>, FALSE),
          Q("c", <<67>>, <<Tag("year", "4"), Tag("topic", "odd")>>, <<"Generic">>, TRUE),
          Q("d", <<68>>, <<Tag("year", "4"), Tag("topic", "arithmetic"), Tag("difficulty", "hard")>>,
            << >>, FALSE) }
  IN UNION {[1..n -> Catalog] : n \in 0..MaxPool}

PoolSubjects == {"maths", "nvr"}

SettingsSet == {DEFAULT_SETTINGS, [grade |-> "Y4", boards |-> <<"Kent">>, allowHarder |-> TRUE]}

(* a call that returns `final`: the recent-id buffer and the history *)
PoolCall(subj, curated, generated, settings, final) ==
  /\ poolOut' = final
  /\ recentIds' = pushRecentIds(getRecentIds, Ids(final))
  /\ poolIn' = [subject |-> subj, cands |-> curated \o generated, settings |-> settings]
  /\ prevIn' = poolIn
  /\ prevOut' = poolOut
  /\ recentAt' = recentIds
  /\ calls' = calls + 1

BuildWithQuota(subj, curated, generated, settings) ==
  /\ page = "pool"
  /\ calls < MaxCalls
  /\ \E final \in buildWithQuota(subj, curated, generated, settings, getRecentIds) :
       PoolCall(subj, curated, generated, settings, final)
  /\ UNCHANGED <<page, pageVars, envVars, histVars, fetched, outcome, stored>>

(* --- candidates for the eligibility filter --- *)
FilterLists ==
  LET FilterCatalog ==
        { Q("e1", <<49>>, << >>, << >>, FALSE),
          Q("e2", <<50>>, <<Tag("topic", "arithmetic")>>, << >>, FALSE),
          Q("e3", <<51>>, <<Tag("year", "5"), Tag("topic", "arithmetic")>>, << >>, FALSE),
          Q("e4", <<52>>, <<Tag("year", "4"), Tag("difficulty", "hard")>>, <<"Kent">>, FALSE),
          Q("e5", <<53>>, <<Tag("year", "4")>>, <<"Generic">>, FALSE),
          Q("e6", <<54>>, <<Tag("year", "4"), Tag("topic", "arithmetic")>>, <<"Bexley", "Generic">>,
            FALSE) }
  IN UNION {[1..n -> FilterCatalog] : n \in 0..MaxPool}

(* --- candidates that share ids or stems --- *)
MaxLen == 3

(* stems "Ab", "Cd", "aB", "A b" and "" as character codes *)
DedupLists ==
  LET DedupItems ==
        { Q("p", <<65, 98>>, << >>, << >>, FALSE),
          Q("q", <<65, 98>>, << >>, << >>, FALSE),
          Q("p", <<67, 100>>, << >>, << >>, FALSE),
          Q("r", <<97, 66>>, << >>, << >>, FALSE),
          Q("s", <<65, 32, 98>>, << >>, << >>, FALSE),
          Q("t", << >>, << >>, << >>, FALSE),
          Q("u", << >>, << >>, << >>, FALSE) }
  IN UNION {[1..n -> DedupItems] : n \in 0..MaxLen}

(* --- pools large enough to fill the quotas --- *)
(* a candidate list: counts[t] candidates of quota topic number t of the   *)
(* subject, the first svgs[t] of them with svgChoiceSets, in table order   *)
(* or in the opposite order; a topic number past the quota table gives     *)
(* candidates without a topic tag (misc)                                   *)
MakePool(shape) ==
  LET subj == shape.subject
      QuotaItem(t, i, svg) ==
        Q(<<subj, t, i>>, <<t, i>>,
          IF t <= Len(QuotaOf(subj))
            THEN <<Tag("year", "4"), Tag("topic", QuotaOf(subj)[t].topic)>>
            ELSE <<Tag("year", "4")>>,
          << >>, svg)
      RECURSIVE Blocks(_)
      Blocks(t) ==
        IF t > Len(shape.counts) THEN << >>
        ELSE [i \in 1..shape.counts[t] |-> QuotaItem(t, i, i <= shape.svgs[t])] \o Blocks(t + 1)
      pool == Blocks(1)
  IN IF shape.rev THEN [i \in 1..Len(pool) |-> pool[Len(pool) + 1 - i]] ELSE pool

(* one candidate of each quota topic *)
ShortCounts(subj) == [t \in 1..Len(QuotaOf(subj)) + 1 |-> IF t <= Len(QuotaOf(subj)) THEN 1 ELSE 0]

PoolShapes ==
  LET quota(subj, t) == QuotaOf(subj)[t].n
      topics(subj) == Len(QuotaOf(subj))
      (* per topic: exactly the quota *)
      ExactCounts(subj) ==
        [t \in 1..topics(subj) + 1 |-> IF t <= topics(subj) THEN quota(subj, t) ELSE 0]
      (* the quota plus spare candidates *)
      SpareCounts(subj) ==
        [t \in 1..topics(subj) + 1 |->
           IF t < topics(subj) THEN quota(subj, t)
           ELSE IF t = topics(subj) THEN quota(subj, t) + 1 ELSE 1]
      (* one short of the first quota, with two candidates that have no topic *)
      TopUpCounts(subj) ==
        [t \in 1..topics(subj) + 1 |->
           IF t = 1 THEN quota(subj, t) - 1
           ELSE IF t <= topics(subj) THEN quota(subj, t) ELSE 2]
      SvgMixes(subj, counts) ==
        IF subj = "nvr"
          THEN {counts, [t \in 1..Len(counts) |-> 0], [t \in 1..Len(counts) |-> IF t = 1 THEN 1 ELSE 0]}
          ELSE {[t \in 1..Len(counts) |-> 0]}
      ShapesOf(subj, counts) ==
        {[subject |-> subj, counts |-> counts, svgs |-> svgs, rev |-> rev] :
           svgs \in SvgMixes(subj, counts), rev \in BOOLEAN}
  IN UNION {UNION {ShapesOf(subj, counts) :
                     counts \in {ExactCounts(subj), SpareCounts(subj), TopUpCounts(subj),
                                ShortCounts(subj)}} :
              subj \in {"maths", "english", "vr", "nvr"}}

(* ======================= generators (part_004) ======================== *)
(* A run of a generator is fixed by the outcomes of its random draws       *)
(* (randInt, shuffle) and by the value of Date.now(); they are parameters  *)
(* here.  A stem is the number of its template followed by the values      *)
(* printed into it; numbers that can carry decimals are kept in hundredths. *)

(* String(x) of a number given in hundredths: whole part and decimals *)
String(h) == [whole |-> h \div 100, dec |-> h % 100]

(* shuffle(arr) when the Fisher-Yates draws produce the permutation sh *)
shuffle(arr, sh) == [i \in 1..Len(arr) |-> arr[sh[i]]]

(* Array.prototype.indexOf: 0-based position of the first match, or -1 *)
indexOf(arr, v) ==
  LET RECURSIVE indexOfFrom(_)
      indexOfFrom(i) ==
        IF i > Len(arr) THEN -1 ELSE IF arr[i] = v THEN i - 1 ELSE indexOfFrom(i + 1)
  IN indexOfFrom(1)

(* a generated question: no exam_board field *)
GQ(id, stem, tags, svg, choices, answerIndex) ==
  [id |-> id, stem |-> stem, tags |-> tags, exam_board |-> << >>, svg |-> svg,
   choices |-> choices, answerIndex |-> answerIndex]

Strings(nums, sh) == [k \in 1..Len(nums) |-> String(shuffle(nums, sh)[k])]

(* genMaths(settings) when its draws come out as d and the clock reads now; *)
(* one local operator per loop body                                        *)
genMaths(settings, d, now) ==
  LET y == settings.grade
      difficulty(dash, other) == Tag("difficulty", IF y = "DASH" THEN dash ELSE other)
      mArith(i, r) ==
        LET ans == 100 * r.a * r.b
            choices == Strings(<<ans, ans + 100 * r.up, Max(100, ans - 100 * r.down),
                                 ans + 100 * r.far>>, r.sh)
        IN GQ(<<"m-arith", now, i>>, <<1, r.a, r.b>>,
              <<yearTag(y), Tag("topic", "arithmetic"), Tag("skill", "multiplication"),
                difficulty("medium", "easy")>>,
              FALSE, choices, indexOf(choices, String(ans)))
      (* Math.round(((num/denom)*whole)*100)/100, in hundredths *)
      mFrac(i, r) ==
        LET ans == (200 * r.num * r.whole + r.denom) \div (2 * r.denom)
            choices == Strings(<<ans, ans + 100, Max(100, ans - 100), ans + 200>>, r.sh)
        IN GQ(<<"m-frac", now, i>>, <<2, r.num, r.denom, r.whole>>,
              <<yearTag(y), Tag("topic", "fracpct"), Tag("skill", "frac-of-whole"),
                difficulty("hard", "medium")>>,
              FALSE, choices, indexOf(choices, String(ans)))
      (* r.rects are the four (w, h) *)
      mGeom(i, r) ==
        LET areas == [k \in 1..4 |-> r.rects[k][1] * r.rects[k][2]]
            largest == CHOOSE m \in Range(areas) : \A n \in Range(areas) : n <= m
        IN GQ(<<"m-geom", now, i>>,
              <<3, r.rects[1][1], r.rects[1][2], r.rects[2][1], r.rects[2][2]>>
                \o <<r.rects[3][1], r.rects[3][2], r.rects[4][1], r.rects[4][2]>>,
              <<yearTag(y), Tag("topic", "geometry"), Tag("skill", "area"),
                difficulty("medium", "easy")>>,
              TRUE, <<"A", "B", "C", "D">>, indexOf(areas, largest))
      mWord(i, r) ==
        LET ans == 100 * (r.price * r.qty + r.extra)
            choices == Strings(<<ans, ans + 200, Max(100, ans - 200), ans + 500>>, r.sh)
        IN GQ(<<"m-word", now, i>>, <<4, r.price, r.qty, r.extra>>,
              <<yearTag(y), Tag("topic", "word"), Tag("skill", "two-step"),
                difficulty("hard", "medium")>>,
              FALSE, choices, indexOf(choices, String(ans)))
      (* the sort is stable and descending *)
      mData(i, r) ==
        LET maxKey == IF r.apples >= r.bananas /\ r.apples >= r.pears THEN "apples"
                      ELSE IF r.bananas >= r.pears THEN "bananas" ELSE "pears"
            choices == shuffle(<<"apples", "bananas", "pears">>, r.sh)
        IN GQ(<<"m-data", now, i>>, <<5, r.apples, r.bananas, r.pears>>,
              <<yearTag(y), Tag("topic", "data"), Tag("skill", "read-data"),
                difficulty("medium", "easy")>>,
              FALSE, choices, indexOf(choices, maxKey))
  IN [i \in 1..4 |-> mArith(i - 1, d.arith[i])]
     \o [i \in 1..3 |-> mFrac(i - 1, d.frac[i])]
     \o [i \in 1..2 |-> mGeom(i - 1, d.geom[i])]
     \o [i \in 1..2 |-> mWord(i - 1, d.word[i])]
     \o [i \in 1..1 |-> mData(i - 1, d.data[i])]

(* genVR(settings) when its draws come out as d and the clock reads now;  *)
(* one local operator per loop body, letters are character codes           *)
genVR(settings, d, now) ==
  LET y == settings.grade
      difficulty(dash, other) == Tag("difficulty", IF y = "DASH" THEN dash ELSE other)
      vSeq(i, r) ==
        LET step == IF settings.allowHarder THEN r.step ELSE 1
            a == 65 + r.start
            next == a + step * 4
            choices == shuffle(<<next, next + 1, next - 1, a>>, r.sh)
        IN GQ(<<"vr-seq", now, i>>, <<6, a, step>>,
              <<yearTag(y), Tag("topic", "sequences"), Tag("skill", "alpha-step"),
                difficulty("hard", "medium")>>,
              FALSE, choices, indexOf(choices, next))
      analogies ==
        <<[correct |-> "HOSPITAL", wrongs |-> <<"BED", "WARD", "NURSE">>],
          [correct |-> "NEST", wrongs |-> <<"BARK", "FLOCK", "EGG">>],
          [correct |-> "CANVAS", wrongs |-> <<"INK", "BRUSH", "GALLERY">>]>>
      (* r.it is the index randInt drew *)
      vAna(i, r) ==
        LET it == analogies[r.it + 1]
            choices == shuffle(<<it.correct>> \o it.wrongs, r.sh)
        IN GQ(<<"vr-ana", now, i>>, <<7, r.it>>,
              <<yearTag(y), Tag("topic", "analogies"), Tag("skill", "semantic"),
                difficulty("medium", "easy")>>,
              FALSE, choices, indexOf(choices, it.correct))
      (* the words BAD, ACE, BEG, FED, CAB *)
      codeWords == <<<<66, 65, 68>>, <<65, 67, 69>>, <<66, 69, 71>>, <<70, 69, 68>>,
                     <<67, 65, 66>>>>
      (* the positions of the letters in the alphabet, joined by "-" *)
      encode(word) == [k \in 1..Len(word) |-> word[k] - 64]
      vCode(i, r) ==
        LET word == codeWords[r.word + 1]
            correct == encode(word)
            choices == shuffle(<<correct, encode(<<67, 65, 66>>), <<2, 2, 2>>, <<1, 1, 1>>>>, r.sh)
        IN GQ(<<"vr-code", now, i>>, <<8>> \o word,
              <<yearTag(y), Tag("topic", "codes"), Tag("skill", "alpha-numeric"),
                difficulty("hard", "medium")>>,
              FALSE, choices, indexOf(choices, correct))
  IN [i \in 1..VR_QUOTA[1].n |-> vSeq(i - 1, d.seq[i])]
     \o [i \in 1..VR_QUOTA[2].n |-> vAna(i - 1, d.ana[i])]
     \o [i \in 1..VR_QUOTA[3].n |-> vCode(i - 1, d.code[i])]

(* ================= generator and quiz set of part_005 ================= *)
QUESTION_COUNT == [maths |-> 12, english |-> 12, vr |-> 10, nvr |-> 8, reasoning |-> 12]

(* genMathGeometry(count) when its draws come out as d; d[i].kind is what  *)
(* pick() drew in pass i of the loop                                       *)
genMathGeometry(count, d) ==
  LET (* the choices [ans, ans+up, max(floor, ans-down), last] shuffled, as strings *)
      gChoices(ans, up, down, floor, last, sh) ==
        Strings(<<ans, ans + up, Max(floor, ans - down), last>>, sh)
      q(id, stem, ans, choices) ==
        GQ(id, stem, << >>, FALSE, choices, indexOf(choices, String(ans)))
      gItem(i, r) ==
        LET rectA == 100 * r.x * r.y
            triA == 50 * r.x * r.y
            rectP == 100 * 2 * (r.x + r.y)
            triP == 100 * (r.x + r.y + r.z)
            angL == 100 * (180 - r.x)
            angT == 100 * (180 - r.x - r.y)
            symm == 100 * (IF r.x = 0 THEN 4 ELSE IF r.x = 1 THEN 2 ELSE 1)
        IN CASE r.kind = "rect-area" ->
                  q(<<"math-rectA", i, r.x, r.y>>, <<1>>, rectA,
                    gChoices(rectA, 100 * r.up, 100 * r.down, 100, rectA + 100 * r.far, r.sh))
             [] r.kind = "tri-area" ->
                  q(<<"math-triA", i, r.x, r.y>>, <<2>>, triA,
                    gChoices(triA, 100 * r.up, 100 * r.down, 100, triA + 100 * r.far, r.sh))
             [] r.kind = "rect-perim" ->
                  q(<<"math-rectP", i, r.x, r.y>>, <<3>>, rectP,
                    gChoices(rectP, 200, 200, 100, rectP + 400, r.sh))
             [] r.kind = "tri-perim" ->
                  q(<<"math-triP", i, r.x, r.y, r.z>>, <<4>>, triP,
                    gChoices(triP, 100, 100, 100, triP + 300, r.sh))
             [] r.kind = "angle-line" ->
                  q(<<"math-angL", i, r.x>>, <<5>>, angL,
                    gChoices(angL, 100 * r.up, 100 * r.down, 100, 100 * r.x, r.sh))
             [] r.kind = "angle-tri" ->
                  q(<<"math-angT", i, r.x, r.y>>, <<6>>, angT,
                    gChoices(angT, 100 * r.up, 100 * r.down, 100, 100 * r.x, r.sh))
             [] OTHER ->
                  q(<<"math-symm", i, r.x>>, <<7, r.x>>, symm,
                    gChoices(symm, 100, 100, 0, symm + 200, r.sh))
  IN [i \in 1..count |-> gItem(i - 1, d[i])]

(* uniqueBy(arr, q => q.stem): the key is key(it).trim().toLowerCase() *)
uniqueBy(arr) ==
  LET toLowerCase(str) ==
        [k \in 1..Len(str) |-> IF str[k] >= 65 /\ str[k] <= 90 THEN str[k] + 32 ELSE str[k]]
      trim(str) ==
        LET kept == {k \in 1..Len(str) : str[k] # 32}
        IN IF kept = {} THEN << >>
           ELSE SubSeq(str, CHOOSE k \in kept : \A j \in kept : k <= j,
                            CHOOSE k \in kept : \A j \in kept : j <= k)
      key(it) == toLowerCase(trim(it.stem))
      RECURSIVE uniqueByFrom(_, _, _)
      uniqueByFrom(i, seen, out) ==
        IF i > Len(arr) THEN out
        ELSE IF key(arr[i]) \in seen THEN uniqueByFrom(i + 1, seen, out)
        ELSE uniqueByFrom(i + 1, seen \cup {key(arr[i])}, Append(out, arr[i]))
  IN uniqueByFrom(1, {}, << >>)

(* what one file of loadBankFromPublic resolves to: a rejected fetch and  *)
(* unparsable JSON become [], any parsed value is passed on as it is       *)
loadBankFromPublic(fo) ==
  IF fo.kind \in {"rejected", "malformed"} THEN [kind |-> "array", arr |-> << >>] ELSE fo

(* bank.maths: [] until the mount effect has stored what was loaded *)
bankMaths == IF fetched.kind = "none" THEN [kind |-> "array", arr |-> << >>]
             ELSE loadBankFromPublic(fetched)

(* buildQuizSet("maths", count): spreading a value that is not iterable   *)
(* throws; sh is the outcome of shuffle on the pool                        *)
buildQuizSet(count, core, generated, sh) ==
  IF core.kind # "array" THEN [threw |-> TRUE, set |-> << >>]
  ELSE LET pool == shuffle(core.arr \o generated, sh)
           uniq == Take(uniqueBy(pool), count)
       IN [threw |-> FALSE,
           set |-> IF Len(uniq) < count
                     THEN Take(uniqueBy(core.arr \o generated \o pool), count)
                     ELSE uniq]

(* ========================= loadCurated (part_004) ===================== *)
(* loadCurated: [] when the fetch rejects, res.json() rejects or the value *)
(* is not an array; a record of the file carries exam_board as             *)
(* [present, v] since the field may be absent                              *)
loadCurated(settings, fo) ==
  LET (* the .map: exam_board: q.exam_board || ["Generic"] *)
      typed(q) == Q(q.id, q.stem, q.tags,
                    IF q.exam_board.present THEN q.exam_board.v ELSE <<"Generic">>, q.svg)
      (* the .filter *)
      ok(q) ==
        LET yearOk == Len(q.tags) = 0 \/ yearTag(settings.grade) \in Range(q.tags)
            boardOk == Len(q.exam_board) = 0
                       \/ Range(q.exam_board) \cap Range(settings.boards) # {}
            diffOk == IF settings.allowHarder THEN TRUE
                      ELSE Tag("difficulty", "hard") \notin Range(q.tags)
        IN yearOk /\ boardOk /\ diffOk
  IN IF fo.kind = "array"
       THEN uniqueByIdThenStem(SelectSeq([k \in 1..Len(fo.arr) |-> typed(fo.arr[k])], ok))
       ELSE << >>

(* --- outcomes of the random draws of one genMaths run --- *)
(* a run in which no two draws of a loop coincide *)
BaseRun ==
  LET id4 == <<1, 2, 3, 4>>
      arith(a, b) == [a |-> a, b |-> b, up |-> 1, down |-> 4, far |-> 5, sh |-> id4]
  IN [arith |-> <<arith(2, 2), arith(2, 3), arith(3, 2), arith(3, 3)>>,
      frac |-> <<[denom |-> 8, num |-> 1, whole |-> 16, sh |-> id4],
                 [denom |-> 4, num |-> 1, whole |-> 9, sh |-> id4],
                 [denom |-> 5, num |-> 2, whole |-> 10, sh |-> id4]>>,
      geom |-> <<[rects |-> <<<<3, 4>>, <<5, 6>>, <<3, 3>>, <<4, 4>>>>],
                 [rects |-> <<<<6, 5>>, <<5, 6>>, <<3, 3>>, <<4, 4>>>>]>>,
      word |-> <<[price |-> 2, qty |-> 3, extra |-> 1, sh |-> id4],
                 [price |-> 3, qty |-> 4, extra |-> 2, sh |-> id4]>>,
      data |-> <<[apples |-> 6, bananas |-> 3, pears |-> 2, sh |-> <<1, 2, 3>>]>>]

(* runs that differ from BaseRun in the draws of one loop; randInt(2,12)   *)
(* of the arithmetic loop is narrowed to a window of its range             *)
MathsRuns ==
  LET Shuffles4 == {<<1, 2, 3, 4>>, <<3, 1, 4, 2>>}
      Shuffles3 == {<<1, 2, 3>>, <<2, 3, 1>>}
      ArithDraws == {[BaseRun.arith[1] EXCEPT !.a = a, !.b = b] : a, b \in {2, 3}}
      FracDraws == {[BaseRun.frac[1] EXCEPT !.whole = 8], BaseRun.frac[2],
                    [BaseRun.frac[3] EXCEPT !.sh = <<3, 1, 4, 2>>]}
      GeomDraws == Range(BaseRun.geom)
      WordDraws == {[BaseRun.word[1] EXCEPT !.sh = sh] : sh \in Shuffles4} \cup {BaseRun.word[2]}
      DataDraws == {[BaseRun.data[1] EXCEPT !.bananas = b, !.sh = sh] : b \in {3, 6}, sh \in Shuffles3}
  IN {[BaseRun EXCEPT !.arith = f] : f \in [1..4 -> ArithDraws]}
     \cup {[BaseRun EXCEPT !.frac = f] : f \in [1..3 -> FracDraws]}
     \cup {[BaseRun EXCEPT !.geom = g, !.data = t] : g \in [1..2 -> GeomDraws], t \in [1..1 -> DataDraws]}
     \cup {[BaseRun EXCEPT !.word = w] : w \in [1..2 -> WordDraws]}

(* --- outcomes of the random draws of one genVR run --- *)
VRRuns ==
  LET id4 == <<1, 2, 3, 4>>
      SeqDraw(start, step) == [start |-> start, step |-> step, sh |-> id4]
      AnaDraw(it, sh) == [it |-> it, sh |-> sh]
      CodeDraw(word) == [word |-> word, sh |-> id4]
      BaseVRRun ==
        [seq |-> <<SeqDraw(0, 1), SeqDraw(1, 2), SeqDraw(2, 3), SeqDraw(18, 1)>>,
         ana |-> <<AnaDraw(0, id4), AnaDraw(1, id4), AnaDraw(2, id4)>>,
         code |-> <<CodeDraw(0), CodeDraw(1), CodeDraw(2)>>]
  IN {[BaseVRRun EXCEPT !.code = f] : f \in [1..3 -> {CodeDraw(0), CodeDraw(3), CodeDraw(4)}]}
     \cup {[BaseVRRun EXCEPT !.ana = f] :
             f \in [1..3 -> {AnaDraw(0, <<3, 1, 4, 2>>), AnaDraw(2, id4)}]}

(* --- outcomes of the random draws of one genMathGeometry run --- *)
GeoCount == Max(16, QUESTION_COUNT.maths)

(* runs of GeoCount passes that differ in the draws of the first two *)
GeoRuns ==
  LET id4 == <<1, 2, 3, 4>>
      G(kind, x, y, z, up, down, far, sh) ==
        [kind |-> kind, x |-> x, y |-> y, z |-> z, up |-> up, down |-> down, far |-> far, sh |-> sh]
      BaseGeoItems ==
        <<G("rect-area", 3, 4, 0, 1, 5, 6, id4), G("tri-area", 5, 3, 0, 1, 4, 5, <<3, 1, 4, 2>>),
          G("rect-perim", 3, 4, 0, 0, 0, 0, id4), G("tri-perim", 3, 4, 5, 0, 0, 0, id4),
          G("angle-line", 40, 0, 0, 1, 5, 0, id4), G("angle-tri", 30, 60, 0, 1, 4, 0, id4),
          G("symmetry", 0, 0, 0, 0, 0, 0, id4)>>
      GeoItemDraws ==
        Range(BaseGeoItems)
        \cup {G("angle-line", 90, 0, 0, 1, 5, 0, id4), G("angle-tri", 60, 60, 0, 1, 4, 0, id4),
              G("symmetry", 2, 0, 0, 0, 0, 0, <<3, 1, 4, 2>>)}
      BaseGeoRun == [i \in 1..GeoCount |-> BaseGeoItems[((i - 1) % Len(BaseGeoItems)) + 1]]
  IN {[BaseGeoRun EXCEPT ![1] = g, ![2] = h] : g, h \in GeoItemDraws}

(* outcomes of shuffle on the n questions of the pool of buildQuizSet *)
PoolShuffles(n) == {[i \in 1..n |-> i], [i \in 1..n |-> n + 1 - i]}

(* --- outcomes of the fetch of the curated maths file --- *)
FetchOutcomes ==
  LET Raw(k, stem, tags, hasBoards, boards) ==
        [id |-> <<"curated", 0, k>>, stem |-> stem, tags |-> tags,
         exam_board |-> [present |-> hasBoards, v |-> boards], svg |-> FALSE]
      RawCatalog ==
        { Raw(1, <<49>>, <<Tag("year", "4"), Tag("topic", "data")>>, FALSE, << >>),
          Raw(2, <<50>>, <<Tag("year", "4"), Tag("topic", "data")>>, TRUE, << >>),
          Raw(3, <<51>>, <<Tag("year", "4"), Tag("topic", "data")>>, TRUE, <<"Kent">>),
          Raw(4, <<52>>, << >>, FALSE, << >>) }
  IN {[kind |-> k, arr |-> << >>] : k \in {"rejected", "malformed", "object"}}
     \cup {[kind |-> "array", arr |-> a] : a \in UNION {[1..n -> RawCatalog] : n \in 0..MaxPool}}

(* ============================ environment ============================= *)
(* The local date changes: todayKey() names the next day's key, which has *)
(* never been written (the clock only moves forward), so it reads as 0.   *)
(* The previous day's key is never read again and leaves the model.       *)
Midnight ==
  /\ today < MaxDay
  /\ today' = today + 1
  /\ ledger' = 0
  /\ dayStart' = 0
  /\ committed' = 0
  /\ UNCHANGED <<page, pageVars, sess, poolVars>>

(* ============================ specification =========================== *)
NoCall == [subject |-> "none", cands |-> << >>, settings |-> DEFAULT_SETTINGS]

NoFetch == [kind |-> "none", arr |-> << >>]

(* nothing has been stored under any of the three keys *)
NoStore ==
  LET absent == [kind |-> "absent",
                 val |-> [kind |-> "undefined", n |-> 0, arr |-> << >>,
                          boards |-> [kind |-> "undefined", arr |-> << >>]]]
  IN [settings |-> absent, quizTime |-> absent, recentIds |-> absent]

PoolIdle ==
  /\ recentIds = << >> /\ poolIn = NoCall /\ poolOut = << >>
  /\ prevIn = NoCall /\ prevOut = << >> /\ recentAt = << >> /\ calls = 0
  /\ fetched = NoFetch /\ outcome = "none" /\ stored = NoStore

PageIdle ==
  /\ mode = "menu" /\ subject = "null" /\ questions = << >> /\ index = 0 /\ answers = << >>
  /\ secondsLeft = QUIZ_SECONDS /\ writingTime = WRITING_SECONDS
  /\ writingTimeChoice = WRITING_SECONDS_DEFAULT /\ paused = FALSE /\ pending = EmptyBag
  /\ today = 0 /\ ledger = 0 /\ mounted = TRUE /\ dailyUsed = 0
  /\ sess = NoSession /\ committed = 0 /\ dayStart = 0

Init ==
  /\ page \in {"quota", "writing", "lint"}
  /\ mode = "menu" /\ subject = "null" /\ questions = << >> /\ index = 0 /\ answers = << >>
  /\ secondsLeft = QUIZ_SECONDS
  /\ writingTime = IF page = "writing" THEN WRITING_SECONDS_DEFAULT ELSE WRITING_SECONDS
  /\ writingTimeChoice = WRITING_SECONDS_DEFAULT
  /\ paused = FALSE
  /\ pending = EmptyBag
  /\ today = 0
  /\ ledger \in StoredSeconds
  /\ mounted = (page # "writing")
  /\ dailyUsed = IF page = "writing" THEN 0 ELSE ledger
  /\ sess = NoSession /\ committed = 0 /\ dayStart = ledger
  /\ PoolIdle

Next ==
  \/ \E subj \in Subjects : Q_startQuiz(subj)
  \/ Q_startComprehension
  \/ \E p \in BagToSet(pending), qs \in QuestionLists : Q_loadCuratedDone(p, qs)
  \/ \E p \in BagToSet(pending), e \in BOOLEAN, qs \in QuestionLists : Q_loadComprehensionDone(p, e, qs)
  \/ Q_QuizTick
  \/ Q_WritingTick
  \/ Q_Pause
  \/ Q_EndQuiz
  \/ \E c \in Choices : Q_answer(c)
  \/ Q_FinishWriting
  \/ Q_BackToMenu
  \/ Q_PracticeHub
  \/ W_MountDone
  \/ \E subj \in W_Subjects, qs \in QuestionLists : W_startQuiz(subj, qs)
  \/ \E c \in Choices : W_answer(c)
  \/ W_finishNow
  \/ W_QuizTick
  \/ W_WritingTick
  \/ W_Pause
  \/ W_startWritingTyping
  \/ W_startWritingPaper
  \/ W_FinishWriting
  \/ W_BackToMenu
  \/ \E v \in WritingTimeChoices : W_setWritingTimeChoice(v)
  \/ \E subj \in Subjects : L_startQuiz(subj)
  \/ L_startComprehension
  \/ \E p \in BagToSet(pending), qs \in QuestionLists : L_loadCuratedDone(p, qs)
  \/ \E p \in BagToSet(pending), e \in BOOLEAN, qs \in QuestionLists : L_loadComprehensionDone(p, e, qs)
  \/ L_QuizTick
  \/ L_WritingTick
  \/ L_EndQuiz
  \/ \E c \in Choices : L_answer(c)
  \/ L_FinishWriting
  \/ L_BackToMenu
  \/ Midnight

Spec == Init /\ [][Next]_vars

(* Pool assembly on its own: calls of buildWithQuota in one browsing session. *)
InitPool == page = "pool" /\ PageIdle /\ PoolIdle

NextPool ==
  \E subj \in PoolSubjects, cands \in CandidateLists, k \in 0..MaxPool, settings \in SettingsSet :
    /\ k <= Len(cands)
    /\ BuildWithQuota(subj, SubSeq(cands, 1, k), SubSeq(cands, k + 1, Len(cands)), settings)

SpecPool == InitPool /\ [][NextPool]_vars

(* A first quiz of the browsing session whose curated fetch failed: the  *)
(* pool is built from the generator alone; Date.now() reads `calls`.       *)
GenMathsBuild(settings, d) ==
  /\ calls = 0
  /\ BuildWithQuota("maths", << >>, genMaths(settings, d, calls), settings)

GenVRBuild(settings, d) ==
  /\ calls = 0
  /\ BuildWithQuota("vr", << >>, genVR(settings, d, calls), settings)

(* buildQuizSet("maths", count) of part_005 on an empty bank *)
GenGeometryBuild(d) ==
  /\ page = "pool"
  /\ calls = 0
  /\ LET generated == genMathGeometry(GeoCount, d)
     IN /\ poolIn' = [subject |-> "maths", cands |-> generated, settings |-> DEFAULT_SETTINGS]
        /\ \E sh \in PoolShuffles(Len(generated)) :
             poolOut' = buildQuizSet(QUESTION_COUNT.maths, [kind |-> "array", arr |-> << >>],
                                     generated, sh).set
  /\ prevIn' = poolIn
  /\ prevOut' = poolOut
  /\ calls' = calls + 1
  /\ UNCHANGED <<page, pageVars, envVars, histVars, recentIds, recentAt, fetched, outcome, stored>>

NextGen ==
  \/ \E d \in MathsRuns : GenMathsBuild(DEFAULT_SETTINGS, d)
  \/ \E settings \in SettingsSet, d \in VRRuns : GenVRBuild(settings, d)
  \/ \E d \in GeoRuns : GenGeometryBuild(d)

SpecGen == InitPool /\ [][NextGen]_vars

(* A quiz whose curated file holds a pool of the given shape, and then   *)
(* "Try another" of the same subject when the file has become a short one. *)
QuotaBuild(shape) ==
  /\ calls = 0 \/ (shape.subject = poolIn.subject /\ shape.counts = ShortCounts(shape.subject))
  /\ BuildWithQuota(shape.subject, MakePool(shape), << >>, DEFAULT_SETTINGS)

NextQuota == \E shape \in PoolShapes : QuotaBuild(shape)

SpecQuota == InitPool /\ [][NextQuota]_vars

(* Maths quizzes late in a browsing session: earlier quizzes have left   *)
(* the recent-id buffer empty, nearly full or full.                        *)
InitRecent ==
  /\ page = "pool" /\ PageIdle
  /\ poolIn = NoCall /\ poolOut = << >> /\ prevIn = NoCall /\ prevOut = << >>
  /\ recentAt = << >> /\ calls = 0 /\ fetched = NoFetch /\ outcome = "none" /\ stored = NoStore
  /\ \E n \in {0, RECENT_LIMIT - 8, RECENT_LIMIT} :
       recentIds = [k \in 1..n |-> <<"maths", 0, k>>]

NextRecent == \E shape \in PoolShapes : shape.subject = "maths" /\ QuotaBuild(shape)

SpecRecent == InitRecent /\ [][NextRecent]_vars

(* uniqueByIdThenStem applied to a list of candidates. *)
InitDedup ==
  /\ page = "pool" /\ PageIdle
  /\ recentIds = << >> /\ poolOut = << >>
  /\ prevIn = NoCall /\ prevOut = << >> /\ recentAt = << >> /\ calls = 0
  /\ fetched = NoFetch /\ outcome = "none" /\ stored = NoStore
  /\ \E xs \in DedupLists : poolIn = [NoCall EXCEPT !.cands = xs]

Dedup ==
  /\ page = "pool"
  /\ calls = 0
  /\ poolOut' = uniqueByIdThenStem(poolIn.cands)
  /\ calls' = calls + 1
  /\ UNCHANGED <<page, pageVars, envVars, histVars, recentIds, poolIn, prevIn, prevOut, recentAt,
                 fetched, outcome, stored>>

NextDedup == Dedup

SpecDedup == InitDedup /\ [][NextDedup]_vars

(* Calls of buildWithQuota on candidates with every kind of tag and board. *)
NextFilter ==
  \E cands \in FilterLists, settings \in SettingsSet :
    BuildWithQuota("maths", cands, << >>, settings)

SpecFilter == InitPool /\ [][NextFilter]_vars

(* Starting a maths quiz with the curated file fetched: the quota page   *)
(* fetches on every start, the writing page once in its mount effect.      *)
InitData == Init /\ page \in {"quota", "writing"} /\ ledger = 0

D_MountDone(fo) ==
  /\ W_Mount
  /\ fetched' = fo
  /\ UNCHANGED <<recentIds, poolIn, poolOut, prevIn, prevOut, recentAt, calls, outcome, stored>>

D_W_startQuiz(d) ==
  /\ page = "writing"
  /\ mode = "menu" \/ (mode = "results" /\ subject = "maths")
  /\ LET generated == genMathGeometry(GeoCount, d)
         n == Len(generated) + (IF bankMaths.kind = "array" THEN Len(bankMaths.arr) ELSE 0)
     IN \E sh \in PoolShuffles(n) :
          LET r == buildQuizSet(QUESTION_COUNT.maths, bankMaths, generated, sh)
          IN IF canStart(dailyUsed) /\ r.threw
               THEN /\ outcome' = "threw"
                    /\ UNCHANGED <<page, pageVars, envVars, histVars>>
               ELSE /\ W_startQuizPage("maths", r.set)
                    /\ outcome' = IF canStart(dailyUsed) THEN "entered" ELSE outcome
  /\ UNCHANGED <<recentIds, poolIn, poolOut, prevIn, prevOut, recentAt, calls, fetched, stored>>

D_Q_loadCuratedDone(p, fo, settings, d) ==
  /\ calls = 0
  /\ LET curated == loadCurated(settings, fo)
         generated == genMaths(settings, d, calls)
     IN \E final \in buildWithQuota("maths", curated, generated, settings, getRecentIds) :
          /\ Q_resumeQuiz(p, final)
          /\ PoolCall("maths", curated, generated, settings, final)
  /\ fetched' = fo
  /\ outcome' = "entered"
  /\ UNCHANGED stored

NextData ==
  \/ \E fo \in FetchOutcomes : D_MountDone(fo)
  \/ \E d \in GeoRuns : D_W_startQuiz(d)
  \/ Q_startQuiz("maths")
  \/ \E p \in BagToSet(pending), fo \in FetchOutcomes, settings \in SettingsSet :
       D_Q_loadCuratedDone(p, fo, settings, BaseRun)

SpecData == InitData /\ [][NextData]_vars

(* The quota and the writing page with time passing: a timeout that stays *)
(* armed for a second fires, so the quiz tick is taken when it stays       *)
(* enabled.  Pausing clears the timeout and resuming arms a new one of a   *)
(* full second, which is why the fairness is weak.                         *)
InitLive == Init /\ page \in {"quota", "writing"}

NextLive ==
  \/ \E subj \in Subjects : Q_startQuiz(subj)
  \/ Q_startComprehension
  \/ \E p \in BagToSet(pending), qs \in QuestionLists : Q_loadCuratedDone(p, qs)
  \/ \E p \in BagToSet(pending), e \in BOOLEAN, qs \in QuestionLists : Q_loadComprehensionDone(p, e, qs)
  \/ Q_QuizTick
  \/ Q_WritingTick
  \/ Q_Pause
  \/ Q_EndQuiz
  \/ \E c \in Choices : Q_answer(c)
  \/ Q_FinishWriting
  \/ Q_BackToMenu
  \/ Q_PracticeHub
  \/ W_MountDone
  \/ \E subj \in W_Subjects, qs \in QuestionLists : W_startQuiz(subj, qs)
  \/ \E c \in Choices : W_answer(c)
  \/ W_finishNow
  \/ W_QuizTick
  \/ W_WritingTick
  \/ W_Pause
  \/ W_startWritingTyping
  \/ W_startWritingPaper
  \/ W_FinishWriting
  \/ W_BackToMenu
  \/ \E v \in WritingTimeChoices : W_setWritingTimeChoice(v)
  \/ Midnight

SpecLive == InitLive /\ [][NextLive]_vars /\ WF_vars(Q_QuizTick) /\ WF_vars(W_QuizTick)

(* ------------------- the quota page on stored texts ------------------- *)
(* A stored text is absent (getItem gives null), empty, text that          *)
(* JSON.parse rejects ("garbage"), or JSON text, given by the value        *)
(* JSON.parse yields: kind is the JavaScript type, n the number, arr the   *)
(* elements of an array, boards the own property `boards` of an object.    *)

(* parseInt(text || "0") || 0: only text that begins with digits gives a   *)
(* number other than NaN, and JSON text does so only for a number.         *)
S_getUsedSecondsToday(raw) ==
  IF raw.kind = "json" /\ raw.val.kind = "number" THEN raw.val.n ELSE 0

(* raw ? JSON.parse(raw) : [], and [] when JSON.parse throws; the parsed   *)
(* value is returned as it is.                                             *)
S_getRecentIds(raw) ==
  IF raw.kind = "json"
    THEN [kind |-> raw.val.kind, arr |-> raw.val.arr]
    ELSE [kind |-> "array", arr |-> << >>]

(* raw ? {...DEFAULT_SETTINGS, ...JSON.parse(raw)} : DEFAULT_SETTINGS, and *)
(* DEFAULT_SETTINGS when JSON.parse throws: spreading copies the own       *)
(* properties of an object and nothing of a number or of null.             *)
S_loadSettings(raw) ==
  LET dflt == [grade |-> DEFAULT_SETTINGS.grade,
               boards |-> [kind |-> "array", arr |-> DEFAULT_SETTINGS.boards],
               allowHarder |-> DEFAULT_SETTINGS.allowHarder]
  IN IF raw.kind = "json" /\ raw.val.kind = "object" /\ raw.val.boards.kind # "undefined"
       THEN [dflt EXCEPT !.boards = raw.val.boards]
       ELSE dflt

(* The mount effect: setDailyUsed(getUsedSecondsToday()) and               *)
(* setSettings(loadSettings()).                                            *)
S_Mount ==
  /\ page = "quota"
  /\ ~mounted
  /\ mounted' = TRUE
  /\ dailyUsed' = getUsedSecondsToday
  /\ UNCHANGED <<page, mode, subject, questions, index, answers, secondsLeft, writingTime,
                 paused, writingTimeChoice, pending, envVars, histVars, poolVars>>

(* startQuiz("maths") after its fetch has settled with `fo`.  In           *)
(* loadCurated a TypeError of settings.boards.includes is caught and the   *)
(* curated list is lost; in buildWithQuota new Set(getRecentIds()) and     *)
(* [...getRecentIds(), ...ids] throw on a value that is not iterable, and  *)
(* nothing catches it: the call ends there and no state is set.            *)
S_loadCuratedDone(p, fo, d) ==
  /\ page = "quota"
  /\ calls = 0
  /\ BagIn(p, pending)
  /\ LET st == S_loadSettings(stored.settings)
         recent == S_getRecentIds(stored.recentIds)
         settings == [grade |-> st.grade, boards |-> st.boards.arr, allowHarder |-> st.allowHarder]
         includesThrows ==
           /\ st.boards.kind \notin {"array", "string"}
           /\ fo.kind = "array"
           /\ \E k \in 1..Len(fo.arr) : ~fo.arr[k].exam_board.present \/ fo.arr[k].exam_board.v # << >>
         curated == IF includesThrows THEN << >> ELSE loadCurated(settings, fo)
         generated == genMaths(settings, d, calls)
         setThrows == recent.kind \in {"number", "object"}
         spreadThrows == recent.kind \in {"number", "object", "null"}
     IN IF setThrows \/ spreadThrows
          THEN /\ pending' = pending (-) SetToBag({p})
               /\ outcome' = "threw"
               /\ UNCHANGED <<page, mode, subject, questions, index, answers, secondsLeft,
                              writingTime, dailyUsed, paused, writingTimeChoice, mounted,
                              envVars, histVars, recentIds, poolIn, poolOut, prevIn, prevOut,
                              recentAt, calls, stored>>
          ELSE LET (* the outcome in which every shuffle leaves its list as it *)
                   (* is; SpecData takes the other outcomes too              *)
                   filtered == Filtered(curated, generated, settings, recent.arr)
                   RECURSIVE selections(_)
                   selections(i) ==
                     IF i > Len(QuotaOf("maths")) THEN << >>
                     ELSE Take(QuotaGroup("maths", filtered, QuotaOf("maths")[i].topic),
                               QuotaOf("maths")[i].n) \o selections(i + 1)
                   final == TopUpAndCut("maths", filtered, selections(1))
               IN
                 /\ Q_resumeQuiz(p, final)
                 /\ PoolCall("maths", curated, generated, settings, final)
                 /\ outcome' = "entered"
                 /\ stored' = [stored EXCEPT !.recentIds =
                                 [kind |-> "json",
                                  val |-> [kind |-> "array", n |-> 0, arr |-> recentIds',
                                           boards |-> [kind |-> "undefined", arr |-> << >>]]]]
  /\ fetched' = fo

(* Every combination of texts under the three keys when the page loads. *)
InitStore ==
  LET J(k, n, arr, b) == [kind |-> k, n |-> n, arr |-> arr, boards |-> [kind |-> b, arr |-> << >>]]
      Text(k, v) == [kind |-> k, val |-> v]
      NonJson == {Text(k, J("undefined", 0, << >>, "undefined")) : k \in {"absent", "garbage"}}
      Null == Text("json", J("null", 0, << >>, "undefined"))
      Object == Text("json", J("object", 0, << >>, "undefined"))
      Number(n) == Text("json", J("number", n, << >>, "undefined"))
      SettingsTexts ==
        NonJson \cup {Number(5)}
          \cup {Text("json", J("object", 0, << >>, "number"))}
          \cup {Text("json", [J("object", 0, << >>, "array") EXCEPT !.boards.arr = <<"Kent">>])}
      TimeTexts ==
        NonJson \cup {Null} \cup {Number(n) : n \in {DAILY_CAP_SECONDS - 1, DAILY_CAP_SECONDS}}
      RecentTexts ==
        NonJson \cup {Null, Object, Number(5)}
          \cup {Text("json", J("array", 0, <<<<"curated", 0, 1>>>>, "undefined"))}
  IN /\ page = "quota"
     /\ mode = "menu" /\ subject = "null" /\ questions = << >> /\ index = 0 /\ answers = << >>
     /\ secondsLeft = QUIZ_SECONDS /\ writingTime = WRITING_SECONDS
     /\ writingTimeChoice = WRITING_SECONDS_DEFAULT /\ paused = FALSE /\ pending = EmptyBag
     /\ today = 0 /\ mounted = FALSE /\ dailyUsed = 0
     /\ sess = NoSession /\ committed = 0
     /\ stored \in [settings : SettingsTexts, quizTime : TimeTexts, recentIds : RecentTexts]
     /\ ledger = S_getUsedSecondsToday(stored.quizTime)
     /\ dayStart = ledger
     /\ recentIds = S_getRecentIds(stored.recentIds).arr
     /\ poolIn = NoCall /\ poolOut = << >> /\ prevIn = NoCall /\ prevOut = << >>
     /\ recentAt = << >> /\ calls = 0 /\ fetched = NoFetch /\ outcome = "none"

NextStore ==
  \/ S_Mount
  \/ mounted /\ Q_startQuiz("maths")
  \/ \E p \in BagToSet(pending) :
       \E fo \in {f \in FetchOutcomes : f.kind = "rejected" \/ (f.kind = "array" /\ Len(f.arr) = 1)} :
         S_loadCuratedDone(p, fo, BaseRun)

SpecStore == InitStore /\ [][NextStore]_vars

(* ============================== claims ================================ *)
TimedModes == {"quiz", "writing", "writingPaper"}

(* C1: whenever a start puts mode into quiz or writing, the initial        *)
(* countdown is at least 1 and at most min(fixed session length,           *)
(* DAILY_CAP_SECONDS minus the seconds in today's ledger at that moment);  *)
(* no session is entered when the ledger has reached the cap.              *)
C1_TimerClamp ==
  (page \in {"quota", "writing"} /\ sess.kind # "none") =>
    /\ sess.init >= 1
    /\ sess.init <= Min(sess.fixed, DAILY_CAP_SECONDS - sess.ledger0)

(* C2: a quiz started with remaining budget r < QUIZ_SECONDS starts with   *)
(* secondsLeft = r, and the step on which its countdown expires moves mode *)
(* to results and leaves the ledger exactly r above its value at the start. *)
C2_ScenarioC ==
  [][(/\ page \in {"quota", "writing"}
      /\ mode = "quiz" /\ mode' = "results" /\ secondsLeft = 1 /\ secondsLeft' = 0
      /\ sess.kind = "quiz" /\ sess.day = today
      /\ sess.init = DAILY_CAP_SECONDS - sess.ledger0 /\ sess.init < QUIZ_SECONDS)
     => ledger' = sess.ledger0 + sess.init]_vars

(* C3: in the writing page addUsedSecondsToday has been called zero times  *)
(* for a quiz session that is still in quiz mode and exactly once for a    *)
(* quiz session that has ended, whatever the order of timer expiry, End    *)
(* quiz, last answer and pause/resume.                                     *)
C3_ExactlyOnce ==
  (page = "writing" /\ sess.kind = "quiz") =>
    sess.commits = (IF mode = "quiz" THEN 0 ELSE 1)

C3_Witness ==
  /\ page = "writing" /\ mode = "results" /\ sess.kind = "quiz" /\ sess.commits = 1
  /\ paused /\ Len(questions) = 2 /\ Len(answers) = 2 /\ secondsLeft = 1

(* C4: in the quota page a step that leaves quiz for results without a     *)
(* tick (End quiz, or the answer to the last question) adds the seconds    *)
(* ticked away since the session started to today's ledger and refreshes   *)
(* the cached daily usage.                                                 *)
C4_UserExitCommits ==
  [][(/\ page = "quota"
      /\ mode = "quiz" /\ mode' = "results" /\ secondsLeft' = secondsLeft)
     => /\ ledger' = ledger + (sess.init - secondsLeft)
        /\ dailyUsed' = ledger']_vars

(* C5: while paused in a timed mode no step changes secondsLeft or         *)
(* writingTime, and none changes the ledger while the mode and the day     *)
(* stay the same; pressing pause changes neither countdown, ledger nor     *)
(* mode; resume leaves the countdown at the value it had.                  *)
C5_PauseFreezes ==
  [][/\ (paused /\ paused' /\ mode \in TimedModes) =>
          /\ secondsLeft' = secondsLeft
          /\ writingTime' = writingTime
          /\ (mode' = mode /\ today' = today) => ledger' = ledger
     /\ (~paused /\ paused') =>
          /\ mode' = mode /\ ledger' = ledger
          /\ secondsLeft' = secondsLeft /\ writingTime' = writingTime
     /\ (paused /\ ~paused' /\ mode \in TimedModes /\ mode' = mode /\ pending' = pending) =>
          /\ secondsLeft' = secondsLeft /\ writingTime' = writingTime
          /\ ledger' = ledger]_vars

C5_Witness ==
  /\ paused /\ mode = "quiz" /\ sess.kind = "quiz"
  /\ secondsLeft > 0 /\ secondsLeft < sess.init

(* C6: within one calendar day the ledger value never decreases, every     *)
(* amount passed to addUsedSecondsToday is >= 0, and the ledger value      *)
(* minus its value at day start equals the sum of the amounts passed.      *)
C6_BudgetMonotone ==
  /\ [](ledger - dayStart = committed)
  /\ [][today' = today =>
          /\ ledger' >= ledger
          /\ committed' >= committed
          /\ ledger' - ledger = committed' - committed]_vars

C6_Witness == dayStart > 0 /\ committed > QUIZ_SECONDS /\ mode = "results"

(* C7: on a day whose ledger started at 0 the stored value never exceeds   *)
(* DAILY_CAP_SECONDS, in the quota page and in the writing page.           *)
C7_DailyCap ==
  (page \in {"quota", "writing"} /\ dayStart = 0) => ledger <= DAILY_CAP_SECONDS

(* C8: in the quota page and the lint-clean page the used-seconds value a  *)
(* start uses for gating and clamping equals the value stored in the       *)
(* ledger for the current day at the moment the session is entered.        *)
C8_StartSeesLedger ==
  (page \in {"quota", "lint"} /\ sess.kind # "none") => sess.used = sess.ledger0

(* C9: the step on which the unpaused writing countdown reaches zero moves *)
(* mode to writingResults and adds the elapsed writing time of the session *)
(* to today's ledger (quota page and writing page).                        *)
C9_WritingCommitted ==
  [][(/\ page \in {"quota", "writing"}
      /\ mode = "writing" /\ writingTime = 1 /\ writingTime' = 0)
     => /\ mode' = "writingResults"
        /\ ledger' = ledger + sess.init]_vars

(* C10: when two consecutive buildWithQuota calls for the same subject see *)
(* the same tag-eligible candidates and the first call returned (and so    *)
(* recorded as recent) all of them, the second call still returns          *)
(* min(target count, number of tag-eligible candidates) questions.         *)
TagEligible(call) ==
  LET ok(q) == TagOk(q, call.settings)
  IN uniqueByIdThenStem(SelectSeq(call.cands, ok))

C10_TopUpIgnoresRecency ==
  (/\ calls >= 2
   /\ prevIn.subject = poolIn.subject
   /\ Range(TagEligible(prevIn)) = Range(TagEligible(poolIn))
   /\ Range(Ids(TagEligible(poolIn))) \subseteq Range(Ids(prevOut)))
  => Len(poolOut) = Min(TARGET_COUNTS[poolIn.subject], Len(TagEligible(poolIn)))

(* C11: with grade Y4, boards Kent and Bexley, harder off and no curated   *)
(* question, buildWithQuota("maths", [], genMaths(settings), settings)     *)
(* returns exactly 12 questions for every outcome of the random draws, all *)
(* of them generated items and none tagged difficulty:hard.                *)
C11_ScenarioA ==
  (calls = 1 /\ poolIn.subject = "maths" /\ poolIn.settings = DEFAULT_SETTINGS
   /\ poolIn.cands # << >> /\ \A q \in Range(poolIn.cands) : q.id[1] \in {"m-arith", "m-frac", "m-geom", "m-word", "m-data"})
  => /\ Len(poolOut) = TARGET_COUNTS["maths"]
     /\ \A q \in Range(poolOut) :
          q \in Range(poolIn.cands) /\ tagValue(q.tags, "difficulty") # "hard"

(* C12: when, after filtering and deduplication, every topic of the        *)
(* subject's quota table has at least its quota of candidates,             *)
(* buildWithQuota returns exactly TARGET_COUNTS[subject] questions and, of *)
(* each quota topic, exactly that topic's quota, whatever the mix of       *)
(* candidates with and without svgChoiceSets.                              *)
FilteredAtCall == Filtered(poolIn.cands, << >>, poolIn.settings, recentAt)

C12_QuotaSatisfied ==
  (/\ calls >= 1
   /\ \A t \in 1..Len(QuotaOf(poolIn.subject)) :
        Len(partitionByTopic(FilteredAtCall, QuotaOf(poolIn.subject)[t].topic))
          >= QuotaOf(poolIn.subject)[t].n)
  => /\ Len(poolOut) = TARGET_COUNTS[poolIn.subject]
     /\ \A t \in 1..Len(QuotaOf(poolIn.subject)) :
          Len(partitionByTopic(poolOut, QuotaOf(poolIn.subject)[t].topic))
            = QuotaOf(poolIn.subject)[t].n

(* C13: for every candidate list xs, applying uniqueByIdThenStem to its    *)
(* own result changes nothing, and the result holds no two elements with   *)
(* the same id and no two with the same stem fingerprint, elements with an *)
(* empty or missing stem included.                                         *)
C13_DedupUnique ==
  calls = 1 =>
    /\ uniqueByIdThenStem(poolOut) = poolOut
    /\ \A i, j \in 1..Len(poolOut) :
         i < j => /\ poolOut[i].id # poolOut[j].id
                  /\ stemHash(poolOut[i].stem) # stemHash(poolOut[j].stem)

(* C19: uniqueByIdThenStem matches stems without regard to letter case and *)
(* whitespace: of two candidates with different ids whose stems differ     *)
(* only in case or in spaces the later one is dropped, and the first-seen  *)
(* candidate keeps its place in the result.                                *)
C19_NearDuplicateStems ==
  LET lower(c) == IF c >= 65 /\ c <= 90 THEN c + 32 ELSE c
      notSpace(c) == c # 32
      norm(stem) == SelectSeq([k \in 1..Len(stem) |-> lower(stem[k])], notSpace)
  IN calls = 1 =>
       /\ \A i, j \in 1..Len(poolOut) :
            (i < j /\ poolOut[i].id # poolOut[j].id /\ Len(poolOut[i].stem) > 0)
              => norm(poolOut[i].stem) # norm(poolOut[j].stem)
       /\ Len(poolIn.cands) > 0 => (Len(poolOut) > 0 /\ poolOut[1] = poolIn.cands[1])

(* C14: the filter of buildWithQuota keeps a candidate exactly when it has *)
(* no year tag or its year tag is yearTag(settings.grade), its exam_board  *)
(* is empty or shares a board with settings.boards, its difficulty is not  *)
(* hard unless allowHarder is set, and its id is not in the recent buffer; *)
(* the kept candidates are unmodified and in input order.                  *)
C14_EligibilityPredicate ==
  LET st == poolIn.settings
      eligible(q) ==
        /\ tagValue(q.tags, "year") \in {"", yearTag(st.grade).v}
        /\ Len(q.exam_board) = 0 \/ Range(q.exam_board) \cap Range(st.boards) # {}
        /\ tagValue(q.tags, "difficulty") # "hard" \/ st.allowHarder
        /\ q.id \notin Range(recentAt)
  IN calls >= 1 =>
       Eligible(poolIn.cands, << >>, st, recentAt) = SelectSeq(poolIn.cands, eligible)

(* C15: when the fetch of the curated file rejects, yields malformed JSON   *)
(* or yields a value that is not an array, the start of a quiz raises no   *)
(* exception and the session is entered with generated questions only      *)
(* (quota page and writing page).                                          *)
C15_FetchFailureDegrades ==
  (outcome # "none" /\ fetched.kind \in {"rejected", "malformed", "object"})
  => /\ outcome = "entered"
     /\ mode = "quiz"
     /\ Len(questions) > 0
     /\ \A q \in Range(questions) : q.id[1] # "curated"

(* C16: in every question produced by genMaths, genVR and genMathGeometry, *)
(* for every outcome of the random draws, answerIndex is in range and no   *)
(* other choice of the question equals the choice at answerIndex.          *)
C16_AnswerUnique ==
  calls >= 1 =>
    \A q \in Range(poolIn.cands) :
      /\ q.answerIndex \in 0..(Len(q.choices) - 1)
      /\ \A k \in 1..Len(q.choices) :
           k # q.answerIndex + 1 => q.choices[k] # q.choices[q.answerIndex + 1]

(* C20: a curated record without an exam_board field, or with an empty     *)
(* one, passes the board checks of loadCurated and of buildWithQuota for   *)
(* every value of settings.boards: when its year and difficulty tags are   *)
(* acceptable it is among the candidates buildWithQuota selects from.      *)
C20_NoBoardMeansAllBoards ==
  (page = "quota" /\ calls >= 1 /\ fetched.kind = "array")
  => \A k \in 1..Len(fetched.arr) :
       LET r == fetched.arr[k]
       IN (/\ Len(r.exam_board.v) = 0
           /\ Len(r.tags) = 0 \/ yearTag(poolIn.settings.grade) \in Range(r.tags)
           /\ poolIn.settings.allowHarder \/ Tag("difficulty", "hard") \notin Range(r.tags))
          => r.id \in Range(Ids(FilteredAtCall))

(* C17: a quiz session started with an empty assembled question list does  *)
(* not stay in quiz mode with no current question (quota page and writing  *)
(* page): in quiz mode questions[index] exists.                            *)
C17_ZeroQuestionSession ==
  (page \in {"quota", "writing"} /\ mode = "quiz") => index < Len(questions)

(* C18: buildWithQuota returns exactly min(TARGET_COUNTS[subject], E)      *)
(* questions, E being the number of candidates left after the tag filter,  *)
(* the recency filter and deduplication; never more than the target and    *)
(* never the same id twice.                                                *)
C18_PoolSize ==
  calls >= 1 =>
    /\ Len(poolOut) = Min(TARGET_COUNTS[poolIn.subject], Len(FilteredAtCall))
    /\ Len(poolOut) <= TARGET_COUNTS[poolIn.subject]
    /\ \A i, j \in 1..Len(poolOut) : i # j => poolOut[i].id # poolOut[j].id

C18_Witness ==
  /\ calls = 2
  /\ Len(Filtered(prevIn.cands, << >>, prevIn.settings, << >>)) > TARGET_COUNTS[prevIn.subject]
  /\ Len(prevOut) = TARGET_COUNTS[prevIn.subject]
  /\ Len(poolIn.cands) > Len(FilteredAtCall)
  /\ Len(FilteredAtCall) > 0
  /\ Len(poolOut) = Len(FilteredAtCall)

(* C21: after a buildWithQuota call every id it returned is in the recent- *)
(* id buffer and no other id was added; the buffer holds at most           *)
(* RECENT_LIMIT ids without duplicates; the ids dropped at the limit are   *)
(* the ones recorded earliest; the selection was made on the buffer as it  *)
(* was before the call's own ids were written.                             *)
C21_RecencyBuffer ==
  calls >= 1 =>
    LET kept == Range(recentIds)
        merged == recentAt \o Ids(poolOut)
    IN /\ Range(Ids(poolOut)) \subseteq kept
       /\ kept \subseteq Range(merged)
       /\ Len(recentIds) <= RECENT_LIMIT
       /\ Cardinality(kept) = Len(recentIds)
       /\ \A i \in 1..(Len(recentAt) - 1) : recentAt[i] \in kept => recentAt[i + 1] \in kept
       /\ recentIds = SubSeq(merged, Len(merged) - Len(recentIds) + 1, Len(merged))
       /\ Range(poolOut) \subseteq Range(FilteredAtCall)

C21_Witness ==
  /\ calls >= 1
  /\ Len(poolOut) > 0
  /\ Len(recentAt) < RECENT_LIMIT
  /\ Len(recentAt) + Len(poolOut) > RECENT_LIMIT
  /\ Len(recentIds) = RECENT_LIMIT
  /\ recentAt[1] \notin Range(recentIds)

(* C22: no id that is in the recent-id buffer when buildWithQuota is       *)
(* called is in its result, and of two consecutive calls the second        *)
(* returns no id the first returned.                                       *)
C22_NoImmediateRepetition ==
  /\ calls >= 1 => Range(Ids(poolOut)) \cap Range(recentAt) = {}
  /\ calls >= 2 => Range(Ids(poolOut)) \cap Range(Ids(prevOut)) = {}

C22_Witness ==
  /\ calls = 2
  /\ Range(Ids(prevOut)) \cap Range(Ids(poolIn.cands)) # {}
  /\ prevOut # << >>
  /\ poolOut # << >>

(* C23: in the quota page and the writing page, while mode stays outside   *)
(* quiz (resp. writing) no step changes secondsLeft (resp. writingTime),   *)
(* while mode stays outside the timed modes the ledger of the day is not   *)
(* changed, and a tick of the quiz countdown is never the firing of a      *)
(* timeout that was scheduled before the running session started.          *)
C23_TimerCancellation ==
  [][(page \in {"quota", "writing"}) =>
       (/\ (mode # "quiz" /\ mode' # "quiz") => secondsLeft' = secondsLeft
        /\ (mode \notin {"writing", "writingPaper"} /\ mode' \notin {"writing", "writingPaper"})
             => writingTime' = writingTime
        /\ (mode \notin TimedModes /\ mode' \notin TimedModes /\ today' = today)
             => ledger' = ledger
        /\ (mode = "quiz" /\ pending' = pending /\ secondsLeft' = secondsLeft - 1)
             => ~sess.stale)]_vars

(* C24: allowed mode transitions. In the quota page every change of mode  *)
(* is one of menu->quiz, quiz->results, results->menu, results->quiz,      *)
(* menu->writing, writing->writingResults, writingResults->menu,           *)
(* writingResults->writing, menu->practice, practice->menu; in particular  *)
(* mode never goes from writing, writingResults or practice to quiz.       *)
C24_AllowedModeTransitions ==
  [][(page = "quota" /\ mode' # mode) =>
       (<<mode, mode'>> \in {<<"menu", "quiz">>, <<"quiz", "results">>,
                             <<"results", "menu">>, <<"results", "quiz">>,
                             <<"menu", "writing">>, <<"writing", "writingResults">>,
                             <<"writingResults", "menu">>, <<"writingResults", "writing">>,
                             <<"menu", "practice">>, <<"practice", "menu">>})]_vars

(* C26: a running session is not replaced behind the user's back. In the  *)
(* quota page, while mode stays quiz the questions list is unchanged,      *)
(* index and answers change only as answer() changes them (one appended    *)
(* answer, index advanced by one) and secondsLeft only as a tick changes   *)
(* it (one second less): a start that was awaiting its fetch replaces      *)
(* none of them.                                                           *)
C26_RunningSessionKept ==
  [][(page = "quota" /\ mode = "quiz" /\ mode' = "quiz") =>
       (/\ questions' = questions
        /\ \/ index' = index /\ answers' = answers
           \/ index' = index + 1 /\ \E c \in Choices : answers' = Append(answers, c)
        /\ secondsLeft' \in {secondsLeft, secondsLeft - 1})]_vars

(* C27: answer log invariant. On the quota and the writing page, in every *)
(* reachable state with mode = quiz the number of answers equals index     *)
(* and, when the question list is not empty, index is below its length;    *)
(* with mode = results the number of answers is at most the number of      *)
(* questions, so the score cannot exceed the number of questions.          *)
C27_AnswerLog ==
  (page \in {"quota", "writing"}) =>
    /\ (mode = "quiz") =>
         /\ Len(answers) = index
         /\ (questions # << >>) => index < Len(questions)
    /\ (mode = "results") => Len(answers) <= Len(questions)

(* every question of a two-question quiz has been answered *)
C27_Witness ==
  /\ page \in {"quota", "writing"}
  /\ mode = "results"
  /\ Len(questions) = 2
  /\ Len(answers) = 2
  /\ index = 1

(* C28: countdown bounds. In every reachable state of the quota page      *)
(* secondsLeft lies in 0..QUIZ_SECONDS and writingTime in                  *)
(* 0..WRITING_SECONDS, for every amount found in the ledger at start-up    *)
(* or written to it since.                                                 *)
C28_CountdownBounds ==
  (page = "quota") =>
    /\ secondsLeft \in 0..QUIZ_SECONDS
    /\ writingTime \in 0..WRITING_SECONDS

(* a quiz and a piece of writing have both run down to zero *)
C28_Witness ==
  /\ page = "quota"
  /\ secondsLeft = 0
  /\ writingTime = 0
  /\ sess.kind = "quiz"
  /\ sess.commits > 0

(* C30: pause blocks only the clock. On the quota and the writing page,   *)
(* while a quiz is paused and a question is shown, answer(i) can be        *)
(* taken; taken while paused it appends the choice to answers, advances    *)
(* index by one or, on the last question, ends the quiz, and leaves        *)
(* secondsLeft as it is; a pause or a resume leaves questions, index and   *)
(* answers as they are.                                                    *)
C30_PauseBlocksOnlyClock ==
  /\ [](/\ (page = "quota" /\ mode = "quiz" /\ paused /\ index + 1 <= Len(questions))
             => ENABLED (\E c \in Choices : Q_answer(c))
        /\ (page = "writing" /\ mode = "quiz" /\ paused /\ index + 1 <= Len(questions))
             => ENABLED (\E c \in Choices : W_answer(c)))
  /\ [][(page \in {"quota", "writing"} /\ mode = "quiz" /\ pending' = pending) =>
          (/\ (paused /\ answers' # answers) =>
                /\ \E c \in Choices : answers' = Append(answers, c)
                /\ secondsLeft' = secondsLeft
                /\ questions' = questions
                /\ IF index + 1 < Len(questions)
                     THEN index' = index + 1 /\ mode' = "quiz"
                     ELSE mode' = "results"
           /\ (paused' # paused) =>
                /\ questions' = questions
                /\ index' = index
                /\ answers' = answers)]_vars

(* the last question of a two-question quiz was answered while paused *)
C30_Witness ==
  /\ page \in {"quota", "writing"}
  /\ mode = "results"
  /\ paused
  /\ Len(questions) = 2
  /\ Len(answers) = 2

(* C29: every quiz ends. On the quota and the writing page, under weak    *)
(* fairness of the one-second quiz tick, in every behaviour in which the   *)
(* quiz is not paused from some point on for ever, each state with         *)
(* mode = quiz is followed by a state with mode = results.                 *)
C29_EveryQuizEnds ==
  ([]<>(~paused)) => ((mode = "quiz") ~> (mode = "results"))

(* C25: storage read failures fall back to defaults. On the quota page,   *)
(* whatever text is stored under settings, quizTime_<day> and              *)
(* recentIds_v1, once the page has mounted loadSettings has given          *)
(* settings whose boards is an array (the default boards unless the        *)
(* stored settings are an object with an array of boards),                 *)
(* getUsedSecondsToday a whole number of seconds and getRecentIds an       *)
(* array, and no start of a quiz has ended in an exception.                *)
C25_StorageFallback ==
  (page = "quota" /\ mounted) =>
    /\ S_loadSettings(stored.settings).boards.kind = "array"
    /\ (~(stored.settings.kind = "json" /\ stored.settings.val.kind = "object"
          /\ stored.settings.val.boards.kind = "array"))
         => S_loadSettings(stored.settings).boards.arr = DEFAULT_SETTINGS.boards
    /\ dailyUsed \in Nat
    /\ S_getRecentIds(stored.recentIds).kind = "array"
    /\ outcome # "threw"

====
